---- MODULE Spec2Model ----
(***************************************************************************)
(* A model of the exo library (KJ-Script/x0): the tool-orchestration loop  *)
(* webscraper_agent, and the provider layer (BaseProvider.chat, the        *)
(* OpenRouter and Gemini backends, the ModelRouterProvider).               *)
(*                                                                         *)
(* Text is modelled as a sequence of tokens, so that the loop's parsing    *)
(* (the "in" test, split, strip, eval) is computed as the code computes    *)
(* it.  Coroutines run one at a time and give up control only where the    *)
(* code awaits an outbound call.                                           *)
(***************************************************************************)
EXTENDS Integers, Sequences, FiniteSets, TLC

(***************************************************************************)
(* Bounds of the model.                                                    *)
(***************************************************************************)
\* webscraper_agent calls made in one behaviour
MaxAgentCalls == 2
\* chat and generate calls made on the providers in one behaviour
MaxProviderCalls == 2
\* ModelRouterProvider constructions made in one behaviour
MaxRouters == 2
\* records added to an InMemoryVectorDB in one behaviour
MaxAdded == 2
\* operations a caller makes on lists get_chat_history returned, in one behaviour
MaxCallerOps == 1
\* invocations of a Tool made in one behaviour
MaxInvocations == 2
\* constructor calls of OpenRouterProvider and GemniProvider made in one behaviour
MaxConstructions == 2

(***************************************************************************)
(* Values.                                                                 *)
(***************************************************************************)
\* the queries a caller passes to webscraper_agent
Queries == {"q1", "q2"}

\* tokens of a model response
USE_TOOL == "USE_TOOL:"
PARAMETERS == "PARAMETERS:"
WS == " "

\* search.name and scraper.name, the two names the loop compares against
google_search == "google_search"
scrape_website == "scrape_website"
KnownTools == {google_search, scrape_website}

\* parameter literals a response can carry and the value eval gives each;
\* any other text makes eval raise SyntaxError
LiteralValue == [lit \in {"{'query': 'a'}", "{'url': 'b'}"} |->
                   IF lit = "{'query': 'a'}" THEN [query |-> "a"] ELSE [url |-> "b"]]
WellFormedLiterals == DOMAIN LiteralValue

\* the values a tool callable returns
ToolResults == {[content |-> "page"]}

\* the dict the loop records for a tool name it does not know
UnknownToolResult == [error |-> "Unknown tool"]

\* the final answer of a call that used up its step budget
Sentinel == <<"Max steps reached without conclusion">>

\* the step budget of one webscraper_agent call
max_steps == 5

\* The responses the provider's generate can give the loop.
Responses ==
  { <<"It", WS, "is", WS, "42">>,
    <<"Done">>,
    <<"Searching", WS, USE_TOOL, WS, google_search, WS, PARAMETERS, WS, "{'query': 'a'}">>,
    <<USE_TOOL, WS, scrape_website, WS, PARAMETERS, WS, "{'url': 'b'}", WS>>,
    <<USE_TOOL, WS, "browse", WS, PARAMETERS, WS, "{'url': 'b'}">>,
    <<USE_TOOL, WS, google_search>>,
    <<USE_TOOL, WS, google_search, WS, PARAMETERS, WS, "{'query':">>,
    <<USE_TOOL, WS, scrape_website, WS, PARAMETERS, WS, "{'url': 'b'}", WS, "then", WS, "read">>,
    <<USE_TOOL, WS, google_search, WS, PARAMETERS, WS, "{'query': 'a'}", WS,
      USE_TOOL, WS, scrape_website, WS, PARAMETERS, WS, "{'url': 'b'}">>,
    <<USE_TOOL, WS, scrape_website, WS, PARAMETERS, WS, "{'url': 'b'}", WS,
      PARAMETERS, WS, "{'query': 'a'}">> }

(***************************************************************************)
(* String operations of the loop, on token sequences.                      *)
(***************************************************************************)
\* sep in s
Contains(s, sep) == \E i \in 1..Len(s) : s[i] = sep

\* s.split(sep): the pieces of s between occurrences of sep
RECURSIVE SplitFrom(_, _, _, _)
SplitFrom(s, sep, i, cur) ==
  IF i > Len(s) THEN <<cur>>
  ELSE IF s[i] = sep THEN <<cur>> \o SplitFrom(s, sep, i + 1, <<>>)
  ELSE SplitFrom(s, sep, i + 1, Append(cur, s[i]))

split(s, sep) == SplitFrom(s, sep, 1, <<>>)

\* s.strip(): s without leading and trailing whitespace
RECURSIVE lstrip(_)
lstrip(s) == IF s # <<>> /\ Head(s) = WS THEN lstrip(Tail(s)) ELSE s

RECURSIVE rstrip(_)
rstrip(s) == IF s # <<>> /\ s[Len(s)] = WS THEN rstrip(SubSeq(s, 1, Len(s) - 1)) ELSE s

strip(s) == rstrip(lstrip(s))

\* eval(text) succeeds exactly on one well-formed literal
EvalRaises(text) == ~(Len(text) = 1 /\ text[1] \in WellFormedLiterals)
eval(text) == LiteralValue[text[1]]

(***************************************************************************)
(* State.                                                                  *)
(***************************************************************************)
VARIABLES
  \* webscraper_agent: the coroutine's position and its locals
  agent_pc,              \* "idle", "awaiting_model", "parsing", "dispatching",
                         \* "returned", "raised"
  query,                 \* the caller's query
  conversation_history,  \* the steps recorded in this call
  step,                  \* the loop counter
  current_prompt,        \* the task text of the next model call
  response,              \* the model response being handled
  tool_name,             \* the parsed tool name
  tool_params,           \* the parsed parameters
  agent_result,          \* the dict the call returned
  agent_exc,             \* the exception the call raised
  \* webscraper_agent: what an observer of the call sees
  sent_prompt,           \* the prompt of the last provider.generate call
  gen_calls,             \* provider.generate calls of this call
  tool_calls,            \* tool callables invoked in this call
  responses,             \* the model responses of this call, in order
  dispatched,            \* <<tool, parameters, result>> of each dispatch of this call
  n_agent_calls          \* calls started so far

agentVars == <<agent_pc, query, conversation_history, step, current_prompt, response,
               tool_name, tool_params, agent_result, agent_exc, sent_prompt,
               gen_calls, tool_calls, responses, dispatched, n_agent_calls>>

VARIABLES
  \* the provider layer
  shared_history,   \* BaseProvider._shared_history.messages
  clock,            \* the time datetime.now() gives the next message
  gem_history,      \* GemniProvider.chat_history, per instance
  ollama_history,   \* OllamaProvider.chat_history (an attribute set by clear only)
  model_attr,       \* the model attribute of the Router's providers
  frames,           \* the chat and generate calls made so far, by number
  running           \* the call that is executing, 0 when none is

provVars == <<shared_history, clock, gem_history, ollama_history, model_attr, frames,
              running>>

VARIABLES
  \* the construction of a ModelRouterProvider
  ctor_pc,          \* where ModelRouterProvider.__init__ is
  ctor_config,      \* self.config: the backend names it holds
  ctor_providers,   \* self._providers: pairs of backend name and provider class
  ctor_k,           \* the if statement of _initialize_providers that is next
  ctor_exc,         \* the exception __init__ raised, "" if none
  routers           \* the constructions that are over, and how they ended

ctorVars == <<ctor_pc, ctor_config, ctor_providers, ctor_k, ctor_exc, routers>>

VARIABLES
  \* an InMemoryVectorDB
  vectors,          \* self.vectors
  metadatas,        \* self.metadatas
  ids,              \* self.ids
  next_id,          \* the uuid4 the next record gets: each one is new
  vdb_result        \* the last call on the store, and what it returned or raised

vdbVars == <<vectors, metadatas, ids, next_id, vdb_result>>

VARIABLES
  \* a caller of the providers
  system_prompt,    \* OpenRouterProvider._system_prompt
  returned,         \* the list the last get_chat_history() gave the caller
  n_caller_ops      \* operations the caller has made on returned lists

callerVars == <<system_prompt, returned, n_caller_ops>>

VARIABLES
  \* the invocation of a Tool
  inv_pc,           \* "idle", "in_function", "function_returned", "returned", "raised"
  inv_tool,         \* self: the Tool that is invoked
  inv_args,         \* the arguments the invoker gave
  inv_calls,        \* the calls made on callables during this invocation
  inv_result,       \* what the callable returned
  inv_value,        \* what the invocation returned
  inv_exc,          \* what the invocation raised, "" if nothing
  n_invocations     \* invocations made so far

toolVars == <<inv_pc, inv_tool, inv_args, inv_calls, inv_result, inv_value, inv_exc,
              n_invocations>>

VARIABLES
  \* the construction of providers
  constructions     \* the constructor calls made so far, and how each ended

credVars == <<constructions>>

VARIABLES
  \* ChromaDBAdapter
  collection,       \* the records of self.collection, each with its id, in the order added
  chroma_result     \* the last call on the adapter and its outcome

chromaVars == <<collection, chroma_result>>

VARIABLES
  \* Tool(...)
  tools_built       \* the Tool constructor calls made so far, and how each ended

toolInitVars == <<tools_built>>

vars == <<agentVars, provVars, ctorVars, vdbVars, callerVars, toolVars, credVars, chromaVars,
          toolInitVars>>

NoPrompt == <<>>
NoParams == [none |-> TRUE]
NoResult == [query |-> "", steps |-> <<>>, final_answer |-> <<>>]

(***************************************************************************)
(* webscraper_agent                                                        *)
(***************************************************************************)
AgentRunning == agent_pc \in {"awaiting_model", "parsing", "dispatching"}
AgentEnded == agent_pc \in {"returned", "raised"}

GeneratePromptNoHistory(task, history) == [task |-> task, history |-> <<>>]

\* the text handed to provider.generate: the task and str(conversation_history)
\* (the tool-describing system prompt is the same in every call)
GeneratePrompt(task, history) == [task |-> task, history |-> history]

\* f"Tool {tool_name} returned: {result}\nWhat should we do next?"
ToolPrompt(name, result) == <<"Tool", name, "returned:", result, "What should we do next?">>

\* the step dict appended to conversation_history
StepRecord(s, name, params, result) ==
  [step |-> s, tool |-> name, parameters |-> params, result |-> result]

\* the loop condition with the bound off by one
LoopGuardInclusive(s) == s <= max_steps

\* the loop condition, for the counter value s
LoopGuard(s) == s < max_steps

\* the steps list outlives the call (a list shared between calls)
StaleHistory == conversation_history

\* conversation_history = [] at the start of a call
FreshHistory == <<>>

\* The head of the loop, reached with counter s, task text prompt and steps
\* history: either the next provider.generate is awaited, or the loop is
\* left and the steps are returned with the sentinel answer.
LoopHead(s, prompt, history) ==
  IF LoopGuard(s)
  THEN /\ sent_prompt' = GeneratePrompt(prompt, history)
       /\ gen_calls' = gen_calls + 1
       /\ agent_pc' = "awaiting_model"
       /\ agent_result' = agent_result
  ELSE /\ agent_result' = [query |-> query, steps |-> history, final_answer |-> Sentinel]
       /\ agent_pc' = "returned"
       /\ UNCHANGED <<sent_prompt, gen_calls>>

ToolPartsOfLastMarker(r) ==
  split(split(r, USE_TOOL)[Len(split(r, USE_TOOL))], PARAMETERS)

\* response.split("USE_TOOL:")[1].split("PARAMETERS:")
ToolParts(r) == split(split(r, USE_TOOL)[2], PARAMETERS)

\* tool_parts[1] does not exist, or eval of it fails
ParseRaises(r) ==
  IF Len(ToolParts(r)) < 2 THEN TRUE ELSE EvalRaises(strip(ToolParts(r)[2]))
ParseError(r) == IF Len(ToolParts(r)) < 2 THEN "IndexError" ELSE "SyntaxError"
ParsedName(r) == strip(ToolParts(r)[1])
ParsedParams(r) == eval(strip(ToolParts(r)[2]))

\* tool_name == "google_search" or tool_name == "scrape_website"
IsKnownTool(name) == name \in {<<google_search>>, <<scrape_website>>}

\* A caller awaits webscraper_agent(q, provider): the locals are set up and
\* the loop is entered with step 0 and the query as the task.
AgentCall(q) ==
  /\ agent_pc \in {"idle", "returned", "raised"}
  /\ n_agent_calls < MaxAgentCalls
  /\ n_agent_calls' = n_agent_calls + 1
  /\ query' = q
  /\ conversation_history' = FreshHistory
  /\ step' = 0
  /\ current_prompt' = <<q>>
  /\ response' = <<>>
  /\ tool_name' = <<>>
  /\ tool_params' = NoParams
  /\ agent_exc' = "none"
  /\ tool_calls' = 0
  /\ responses' = <<>>
  /\ dispatched' = <<>>
  /\ IF LoopGuard(0)
     THEN /\ sent_prompt' = GeneratePrompt(<<q>>, conversation_history')
          /\ gen_calls' = 1
          /\ agent_pc' = "awaiting_model"
          /\ agent_result' = NoResult
     ELSE /\ agent_result' = [query |-> q, steps |-> conversation_history',
                              final_answer |-> Sentinel]
          /\ agent_pc' = "returned"
          /\ gen_calls' = 0
          /\ sent_prompt' = GeneratePrompt(NoPrompt, <<>>)

\* provider.generate returns the text r
ModelResponds(r) ==
  /\ agent_pc = "awaiting_model"
  /\ response' = r
  /\ responses' = Append(responses, r)
  /\ agent_pc' = "parsing"
  /\ UNCHANGED <<query, conversation_history, step, current_prompt, tool_name, tool_params,
                 agent_result, agent_exc, sent_prompt, gen_calls, tool_calls, dispatched,
                 n_agent_calls>>

\* provider.generate raises: nothing in the loop catches it
ModelRaises ==
  /\ agent_pc = "awaiting_model"
  /\ agent_exc' = "BackendError"
  /\ agent_pc' = "raised"
  /\ UNCHANGED <<query, conversation_history, step, current_prompt, response, tool_name,
                 tool_params, agent_result, sent_prompt, gen_calls, tool_calls, responses,
                 dispatched, n_agent_calls>>

\* the final answer is returned without the steps taken so far
FinalAnswerDropsSteps ==
  /\ agent_pc = "parsing"
  /\ ~Contains(response, USE_TOOL)
  /\ agent_result' = [query |-> query, steps |-> <<>>, final_answer |-> response]
  /\ agent_pc' = "returned"
  /\ UNCHANGED <<query, conversation_history, step, current_prompt, response, tool_name,
                 tool_params, agent_exc, sent_prompt, gen_calls, tool_calls, responses,
                 dispatched, n_agent_calls>>

\* no "USE_TOOL:" in the response: it is the final answer
FinalAnswer ==
  /\ agent_pc = "parsing"
  /\ ~Contains(response, USE_TOOL)
  /\ agent_result' = [query |-> query, steps |-> conversation_history,
                      final_answer |-> response]
  /\ agent_pc' = "returned"
  /\ UNCHANGED <<query, conversation_history, step, current_prompt, response, tool_name,
                 tool_params, agent_exc, sent_prompt, gen_calls, tool_calls, responses,
                 dispatched, n_agent_calls>>

\* tool_parts[1] or eval raises: nothing in the loop catches it
ParseFails ==
  /\ agent_pc = "parsing"
  /\ Contains(response, USE_TOOL)
  /\ ParseRaises(response)
  /\ tool_name' = ParsedName(response)
  /\ agent_exc' = ParseError(response)
  /\ agent_pc' = "raised"
  /\ UNCHANGED <<query, conversation_history, step, current_prompt, response, tool_params,
                 agent_result, sent_prompt, gen_calls, tool_calls, responses, dispatched,
                 n_agent_calls>>

RecordStepStalePrompt(name, params, result) ==
  /\ conversation_history' = Append(conversation_history,
                                    StepRecord(step, name, params, result))
  /\ current_prompt' = current_prompt
  /\ step' = step + 1
  /\ dispatched' = Append(dispatched, <<name, params, result>>)
  /\ LoopHead(step', current_prompt', conversation_history')

\* After a dispatch: append the step, build the next prompt, step += 1, and
\* go round the loop.
RecordStep(name, params, result) ==
  /\ conversation_history' = Append(conversation_history,
                                    StepRecord(step, name, params, result))
  /\ current_prompt' = ToolPrompt(name, result)
  /\ step' = step + 1
  /\ dispatched' = Append(dispatched, <<name, params, result>>)
  /\ LoopHead(step', current_prompt', conversation_history')

\* the parsed name is a known tool: call search(**tool_params) or scraper(**tool_params)
InvokeTool ==
  /\ agent_pc = "parsing"
  /\ Contains(response, USE_TOOL)
  /\ ~ParseRaises(response)
  /\ IsKnownTool(ParsedName(response))
  /\ tool_name' = ParsedName(response)
  /\ tool_params' = ParsedParams(response)
  /\ tool_calls' = tool_calls + 1
  /\ agent_pc' = "dispatching"
  /\ UNCHANGED <<query, conversation_history, step, current_prompt, response, agent_result,
                 agent_exc, sent_prompt, gen_calls, responses, dispatched, n_agent_calls>>

\* an unknown tool name is raised as an error instead of being recorded
UnknownToolRaises ==
  /\ agent_pc = "parsing"
  /\ Contains(response, USE_TOOL)
  /\ ~ParseRaises(response)
  /\ ~IsKnownTool(ParsedName(response))
  /\ tool_name' = ParsedName(response)
  /\ tool_params' = ParsedParams(response)
  /\ agent_exc' = "ValueError"
  /\ agent_pc' = "raised"
  /\ UNCHANGED <<query, conversation_history, step, current_prompt, response, agent_result,
                 sent_prompt, gen_calls, tool_calls, responses, dispatched, n_agent_calls>>

\* the parsed name is no known tool: result = {"error": "Unknown tool"}
UnknownTool ==
  /\ agent_pc = "parsing"
  /\ Contains(response, USE_TOOL)
  /\ ~ParseRaises(response)
  /\ ~IsKnownTool(ParsedName(response))
  /\ tool_name' = ParsedName(response)
  /\ tool_params' = ParsedParams(response)
  /\ RecordStep(tool_name', tool_params', UnknownToolResult)
  /\ UNCHANGED <<query, response, agent_exc, tool_calls, responses, n_agent_calls>>

\* the tool callable returns res
ToolReturns(res) ==
  /\ agent_pc = "dispatching"
  /\ RecordStep(tool_name, tool_params, res)
  /\ UNCHANGED <<query, response, tool_name, tool_params, agent_exc, tool_calls,
                 responses, n_agent_calls>>

\* the tool callable raises: nothing in the loop catches it
ToolRaises ==
  /\ agent_pc = "dispatching"
  /\ agent_exc' = "ToolError"
  /\ agent_pc' = "raised"
  /\ UNCHANGED <<query, conversation_history, step, current_prompt, response, tool_name,
                 tool_params, agent_result, sent_prompt, gen_calls, tool_calls, responses,
                 dispatched, n_agent_calls>>

AgentStep ==
  \/ \E r \in Responses : ModelResponds(r)
  \/ ModelRaises
  \/ FinalAnswer
  \/ ParseFails
  \/ InvokeTool
  \/ UnknownTool
  \/ \E res \in ToolResults : ToolReturns(res)
  \/ ToolRaises

(***************************************************************************)
(* The provider layer: values.                                             *)
(***************************************************************************)
\* The providers a caller holds, and the providers the Router holds.  The
\* Router's registry is the one _initialize_providers is written to build for a
\* configuration naming openai and gemini; GemniProvider and OllamaProvider are
\* modelled by the methods they define, as a subclass that supplies the
\* abstract _generate_chat_response inherits them.
OpenRouter == "openrouter"
Gemni == "gemini"
Ollama == "ollama"
Router == "router"
RouterOpenAI == "router.openai"
RouterGemni == "router.gemini"

\* providers whose chat is BaseProvider.chat, on the shared ChatHistory
BaseChatProviders == {OpenRouter, Router, RouterOpenAI}
\* GemniProvider instances, each with its own chat_history list
GemniInstances == {Gemni, RouterGemni}

\* ModelRouterProvider.config and ModelRouterProvider._providers, for a
\* configuration naming the backends openai and gemini
Config == [openai |-> {<<"gpt-3.5-turbo">>, <<"gpt-4">>},
           gemini |-> {<<"gemini-pro">>, <<"gemini-flash">>}]
Providers == [openai |-> RouterOpenAI, gemini |-> RouterGemni]
default_model == <<"openai", "/", "gpt-3.5-turbo">>

\* the model keyword of a Router call: absent, or an identifier
NoModel == <<>>
ModelArgs == {NoModel,
              <<"openai", "/", "gpt-4">>,
              <<"gemini", "/", "gemini-pro">>,
              <<"gemini", "/", "gemini-flash">>,
              <<"openai", "/", "davinci">>,
              <<"google", "/", "gemini-pro">>}

\* the i-th prompt of call c, and the completion a backend gives a prompt
Prompt(c, i) == <<"ask", c, i>>
Completion(prompt) == <<"re", prompt[2], prompt[3]>>

NoFrame == 0

\* positions at which a call is suspended, waiting for a backend
Suspended == {"orp_wait", "abs_wait"}
\* positions of a call that is over
Over == {"returned", "raised"}

\* return values: one text, or a list of texts
Text(t) == [kind |-> "text", text |-> t, texts |-> <<>>]
Texts(ts) == [kind |-> "list", text |-> <<>>, texts |-> ts]
NoValue == [kind |-> "none", text |-> <<>>, texts |-> <<>>]

(***************************************************************************)
(* ChatHistory and the providers' history accessors.                       *)
(***************************************************************************)
\* the dict ChatHistory.add_message appends
Message(role, content, time) == [role |-> role, content |-> content, timestamp |-> time]

\* the dict GemniProvider.chat appends
GemniMessage(role, content) == [role |-> role, content |-> content]

\* OllamaProvider has no attribute chat_history until clear_chat_history sets it
NoAttribute == [defined |-> FALSE, messages |-> <<>>]

\* the list p's chat and p.get_chat_history() read
History(p) ==
  IF p \in BaseChatProviders THEN shared_history
  ELSE IF p \in GemniInstances THEN gem_history[p]
  ELSE ollama_history.messages

\* p.get_chat_history(): the messages, or an AttributeError when OllamaProvider
\* has no chat_history yet
get_chat_history(p) ==
  IF p = "ollama" /\ ~ollama_history.defined
  THEN [exc |-> "AttributeError", value |-> <<>>]
  ELSE [exc |-> "", value |-> History(p)]

\* OpenRouterProvider._system_prompt: None, or a text
NoSystemPrompt == <<>>
SystemPrompts == {NoSystemPrompt, <<"be brief">>}

\* the dict OpenRouterProvider._generate_chat_response makes for a request
RequestMessage(role, content) == [role |-> role, content |-> content]

\* the messages of OpenRouterProvider's payload: the list get_history() gave,
\* with the message appended and, when there is a system prompt, the system
\* message inserted at the front
RequestMessages(history, message, prompt) ==
  LET messages == Append(history, RequestMessage("user", message)) IN
  IF prompt # NoSystemPrompt
  THEN <<RequestMessage("system", prompt)>> \o messages
  ELSE messages

\* all the message lists, as they are now
Contexts == [shared |-> shared_history, gem |-> gem_history]

\* model.split("/", 1): the part before the first "/" and the part after it
RECURSIVE SplitOnceFrom(_, _, _)
SplitOnceFrom(s, sep, i) ==
  IF i > Len(s) THEN <<s>>
  ELSE IF s[i] = sep THEN <<SubSeq(s, 1, i - 1), SubSeq(s, i + 1, Len(s))>>
  ELSE SplitOnceFrom(s, sep, i + 1)
SplitOnce(s, sep) == SplitOnceFrom(s, sep, 1)

ResolutionErrorBackendOnly(model) ==
  LET parts == SplitOnce(model, "/") IN
  IF Len(parts) < 2 THEN "ValueError: not enough values to unpack"
  ELSE IF ~(Len(parts[1]) = 1 /\ parts[1][1] \in DOMAIN Providers)
       THEN "ValueError: provider not configured"
  ELSE ""

\* _get_provider_and_model: the exception it raises, "" when it returns
ResolutionError(model) ==
  LET parts == SplitOnce(model, "/") IN
  IF Len(parts) < 2 THEN "ValueError: not enough values to unpack"
  ELSE IF ~(Len(parts[1]) = 1 /\ parts[1][1] \in DOMAIN Providers)
       THEN "ValueError: provider not configured"
  ELSE IF parts[2] \notin Config[parts[1][1]] THEN "ValueError: model not available"
  ELSE ""
ResolvedBackend(model) == SplitOnce(model, "/")[1][1]
ResolvedModel(model) == SplitOnce(model, "/")[2]

(***************************************************************************)
(* Calls on the providers.  A call is a frame; the frame that is running   *)
(* holds the only thread of control until it awaits a backend.             *)
(***************************************************************************)
\* the calls suspended now have been overlapped by another operation
Overlapped(fs) ==
  [c \in DOMAIN fs |-> IF fs[c].pc \in Suspended THEN [fs[c] EXCEPT !.alone = FALSE] ELSE fs[c]]

\* where p's chat or generate starts
FirstPc(p, op) ==
  IF op = "chat"
  THEN (CASE p \in {OpenRouter, Router} -> "chat_add_user"
          [] p = Gemni -> "gem_chat"
          [] p = Ollama -> "ollama_chat")
  ELSE (CASE p \in {OpenRouter, Router} -> "gen_next"
          [] p = Gemni -> "gem_generate")

\* A caller awaits p.chat(message, ...) or p.generate(prompts, ...).
Start(p, op, single, model) ==
  LET c == Len(frames) + 1 IN
  /\ running = NoFrame
  /\ Len(frames) < MaxProviderCalls
  /\ op = "chat" => single
  /\ p # Router => model = NoModel
  /\ p = Gemni => single
  /\ frames' = Append(Overlapped(frames),
       [op |-> op, entry |-> p, cur |-> p, pc |-> FirstPc(p, op),
        single |-> single,
        prompts |-> IF single THEN <<Prompt(c, 1)>> ELSE <<Prompt(c, 1), Prompt(c, 2)>>,
        k |-> 1, texts |-> <<>>, model |-> model,
        reply |-> <<>>, value |-> NoValue, exc |-> "",
        alone |-> \A d \in DOMAIN frames : frames[d].pc \notin Suspended,
        ctx_at_start |-> Contexts,
        ctx_at_request |-> <<>>,
        requests |-> 0,
        request_model |-> NoModel,
        payload |-> <<>>])
  /\ running' = c
  /\ UNCHANGED <<shared_history, clock, gem_history, ollama_history, model_attr>>

\* the message the running part of frame f is handling
CurrentPrompt(f) == f.prompts[f.k]

\* where control goes when _generate_chat_response of the entry provider returns
AfterResponse(f) == IF f.op = "chat" THEN "chat_add_asst" ELSE "gen_collect"

RaiseSwallowed(c, e) ==
  /\ frames' = [frames EXCEPT ![c].pc = "returned", ![c].exc = e, ![c].value = Text(<<>>)]
  /\ running' = NoFrame

\* an exception leaves the call: nothing in chat or generate catches it
Raise(c, e) ==
  /\ frames' = [frames EXCEPT ![c].pc = "raised", ![c].exc = e]
  /\ running' = NoFrame

\* chat goes on to self._generate_chat_response
ChatCallsBackend(f) ==
  CASE f.cur = OpenRouter -> "orp_post"
    [] f.cur = Router -> "rt_resolve"
    [] f.cur = RouterOpenAI -> "abs_call"

ChatForgetsUser(c) ==
  /\ running = c
  /\ frames[c].pc = "chat_add_user"
  /\ frames' = [frames EXCEPT ![c].pc = ChatCallsBackend(frames[c])]
  /\ UNCHANGED <<shared_history, clock, gem_history, ollama_history, model_attr, running>>

\* BaseProvider.chat, line 103: self._chat_history.add_message('user', message),
\* then on to self._generate_chat_response
ChatAddUser(c) ==
  LET f == frames[c] IN
  /\ running = c
  /\ f.pc = "chat_add_user"
  /\ shared_history' = Append(shared_history, Message("user", CurrentPrompt(f), clock))
  /\ clock' = clock + 1
  /\ frames' = [frames EXCEPT ![c].pc = ChatCallsBackend(f)]
  /\ UNCHANGED <<gem_history, ollama_history, model_attr, running>>

\* BaseProvider.chat, lines 109-111: add_message('assistant', response) and
\* return response, to the caller or to the Router that delegated
ChatAddAsst(c) ==
  LET f == frames[c] IN
  /\ running = c
  /\ f.pc = "chat_add_asst"
  /\ shared_history' = Append(shared_history, Message("assistant", f.reply, clock))
  /\ clock' = clock + 1
  /\ IF f.cur = f.entry
     THEN /\ frames' = [frames EXCEPT ![c].pc = "returned", ![c].value = Text(f.reply)]
          /\ running' = NoFrame
     ELSE /\ frames' = [frames EXCEPT ![c].cur = f.entry, ![c].pc = AfterResponse(f)]
          /\ running' = running
  /\ UNCHANGED <<gem_history, ollama_history, model_attr>>

OpenRouterPostBlocking(c) ==
  LET f == frames[c] IN
  /\ running = c
  /\ f.pc = "orp_post"
  /\ frames' = [frames EXCEPT ![c].pc = "orp_wait",
                              ![c].ctx_at_request = shared_history,
                              ![c].requests = f.requests + 1,
                              ![c].payload = RequestMessages(shared_history,
                                               CurrentPrompt(f), system_prompt)]
  /\ UNCHANGED <<shared_history, clock, gem_history, ollama_history, model_attr, running>>

\* OpenRouterProvider._generate_chat_response: build the payload and await the POST
OpenRouterPostOnStoredList(c) ==
  LET f == frames[c] IN
  /\ running = c
  /\ f.pc = "orp_post"
  /\ frames' = [frames EXCEPT ![c].pc = "orp_wait",
                              ![c].ctx_at_request = shared_history,
                              ![c].requests = f.requests + 1,
                              ![c].payload = RequestMessages(shared_history,
                                               CurrentPrompt(f), system_prompt)]
  /\ running' = NoFrame
  /\ shared_history' = RequestMessages(shared_history, CurrentPrompt(f), system_prompt)
  /\ UNCHANGED <<clock, gem_history, ollama_history, model_attr>>

OpenRouterPost(c) ==
  LET f == frames[c] IN
  /\ running = c
  /\ f.pc = "orp_post"
  /\ frames' = [frames EXCEPT ![c].pc = "orp_wait",
                              ![c].ctx_at_request = shared_history,
                              ![c].requests = f.requests + 1,
                              ![c].payload = RequestMessages(shared_history,
                                               CurrentPrompt(f), system_prompt)]
  /\ running' = NoFrame
  /\ UNCHANGED <<shared_history, clock, gem_history, ollama_history, model_attr>>

\* the POST comes back with status 200: return the content
OpenRouterResponds(c) ==
  LET f == frames[c] IN
  /\ running = NoFrame
  /\ f.pc = "orp_wait"
  /\ frames' = [frames EXCEPT ![c].reply = Completion(CurrentPrompt(f)),
                              ![c].pc = AfterResponse(f)]
  /\ running' = c
  /\ UNCHANGED <<shared_history, clock, gem_history, ollama_history, model_attr>>

\* the POST fails or comes back with another status: an exception is raised
OpenRouterFails(c) ==
  /\ running = NoFrame
  /\ frames[c].pc = "orp_wait"
  /\ Raise(c, "BackendError")
  /\ UNCHANGED <<shared_history, clock, gem_history, ollama_history, model_attr>>

\* generate of OpenRouterProvider and ModelRouterProvider: the next prompt goes
\* to _generate_chat_response; after the last one the text or the list is returned
GenNext(c) ==
  LET f == frames[c] IN
  /\ running = c
  /\ f.pc = "gen_next"
  /\ IF f.k <= Len(f.prompts)
     THEN /\ frames' = [frames EXCEPT ![c].pc = IF f.entry = OpenRouter THEN "orp_post"
                                                ELSE "rt_resolve"]
          /\ running' = running
     ELSE /\ frames' = [frames EXCEPT ![c].pc = "returned",
                          ![c].value = IF f.single THEN Text(f.texts[1]) ELSE Texts(f.texts)]
          /\ running' = NoFrame
  /\ UNCHANGED <<shared_history, clock, gem_history, ollama_history, model_attr>>

\* the list comprehension of generate: the texts so far and the next one
CollectedReversed(texts, reply) == <<reply>> \o texts

CollectedTexts(texts, reply) == Append(texts, reply)

\* generate: the text _generate_chat_response returned is kept
GenCollect(c) ==
  LET f == frames[c] IN
  /\ running = c
  /\ f.pc = "gen_collect"
  /\ frames' = [frames EXCEPT ![c].texts = CollectedTexts(f.texts, f.reply),
                              ![c].k = f.k + 1,
                              ![c].pc = "gen_next"]
  /\ UNCHANGED <<shared_history, clock, gem_history, ollama_history, model_attr, running>>

\* the identifier a Router call resolves: the model keyword, else default_model
RequestedModel(f) == IF f.model = NoModel THEN default_model ELSE f.model

RouterDelegateKeepsModel(c) ==
  LET f == frames[c]
      id == RequestedModel(f) IN
  /\ running = c
  /\ f.pc = "rt_resolve"
  /\ ResolutionError(id) = ""
  /\ frames' = [frames EXCEPT ![c].cur = Providers[ResolvedBackend(id)],
                  ![c].pc = IF Providers[ResolvedBackend(id)] = RouterGemni
                            THEN "gem_chat" ELSE "chat_add_user"]
  /\ UNCHANGED <<shared_history, clock, gem_history, ollama_history, model_attr, running>>

\* ModelRouterProvider._generate_chat_response: resolve the identifier, set the
\* provider's model, and call provider.chat(message)
RouterDelegate(c) ==
  LET f == frames[c]
      id == RequestedModel(f) IN
  /\ running = c
  /\ f.pc = "rt_resolve"
  /\ ResolutionError(id) = ""
  /\ model_attr' = [model_attr EXCEPT ![ResolvedBackend(id)] = ResolvedModel(id)]
  /\ frames' = [frames EXCEPT ![c].cur = Providers[ResolvedBackend(id)],
                  ![c].pc = IF Providers[ResolvedBackend(id)] = RouterGemni
                            THEN "gem_chat" ELSE "chat_add_user"]
  /\ UNCHANGED <<shared_history, clock, gem_history, ollama_history, running>>

\* _get_provider_and_model raises ValueError
RouterResolutionFails(c) ==
  LET f == frames[c] IN
  /\ running = c
  /\ f.pc = "rt_resolve"
  /\ ResolutionError(RequestedModel(f)) # ""
  /\ Raise(c, ResolutionError(RequestedModel(f)))
  /\ UNCHANGED <<shared_history, clock, gem_history, ollama_history, model_attr>>

\* the model attribute of p, a provider of the Router, else none
ModelAttr(p) ==
  IF p = RouterOpenAI THEN model_attr["openai"]
  ELSE IF p = RouterGemni THEN model_attr["gemini"]
  ELSE NoModel

\* the Router's provider awaits its own _generate_chat_response (abstract in
\* BaseProvider): a request to its backend
AbstractCall(c) ==
  LET f == frames[c] IN
  /\ running = c
  /\ f.pc = "abs_call"
  /\ frames' = [frames EXCEPT ![c].pc = "abs_wait",
                              ![c].ctx_at_request = shared_history,
                              ![c].requests = f.requests + 1,
                              ![c].request_model = ModelAttr(f.cur)]
  /\ running' = NoFrame
  /\ UNCHANGED <<shared_history, clock, gem_history, ollama_history, model_attr>>

AbstractRespondsRereadsModel(c) ==
  LET f == frames[c] IN
  /\ running = NoFrame
  /\ f.pc = "abs_wait"
  /\ frames' = [frames EXCEPT ![c].reply = Completion(CurrentPrompt(f)),
                              ![c].request_model = ModelAttr(f.cur),
                              ![c].pc = "chat_add_asst"]
  /\ running' = c
  /\ UNCHANGED <<shared_history, clock, gem_history, ollama_history, model_attr>>

\* the backend answers the provider's request
AbstractResponds(c) ==
  LET f == frames[c] IN
  /\ running = NoFrame
  /\ f.pc = "abs_wait"
  /\ frames' = [frames EXCEPT ![c].reply = Completion(CurrentPrompt(f)),
                              ![c].pc = "chat_add_asst"]
  /\ running' = c
  /\ UNCHANGED <<shared_history, clock, gem_history, ollama_history, model_attr>>

AbstractFails(c) ==
  /\ running = NoFrame
  /\ frames[c].pc = "abs_wait"
  /\ Raise(c, "BackendError")
  /\ UNCHANGED <<shared_history, clock, gem_history, ollama_history, model_attr>>

\* where control goes when GemniProvider.chat returns
AfterGemniChat(f) == IF f.cur = f.entry THEN "returned" ELSE AfterResponse(f)

\* GemniProvider.chat: append the user message, call the client (it blocks, it
\* is not awaited), append the answer and return it
GemniChat(c) ==
  LET f == frames[c]
      g == f.cur
      asked == Append(gem_history[g], GemniMessage("user", CurrentPrompt(f)))
      answer == Completion(CurrentPrompt(f)) IN
  /\ running = c
  /\ f.pc = "gem_chat"
  /\ gem_history' = [gem_history EXCEPT ![g] = Append(asked, GemniMessage("assistant", answer))]
  /\ frames' = [frames EXCEPT ![c].reply = answer,
                              ![c].ctx_at_request = asked,
                              ![c].requests = f.requests + 1,
                              ![c].request_model = ModelAttr(g),
                              ![c].cur = f.entry,
                              ![c].pc = AfterGemniChat(f),
                              ![c].value = IF f.cur = f.entry THEN Text(answer) ELSE f.value]
  /\ running' = IF f.cur = f.entry THEN NoFrame ELSE running
  /\ UNCHANGED <<shared_history, clock, ollama_history, model_attr>>

\* GemniProvider.chat: the client raises after the user message was appended
GemniChatFails(c) ==
  LET f == frames[c]
      g == f.cur
      asked == Append(gem_history[g], GemniMessage("user", CurrentPrompt(f))) IN
  /\ running = c
  /\ f.pc = "gem_chat"
  /\ gem_history' = [gem_history EXCEPT ![g] = asked]
  /\ frames' = [frames EXCEPT ![c].pc = "raised", ![c].exc = "BackendError",
                              ![c].ctx_at_request = asked,
                              ![c].requests = f.requests + 1,
                              ![c].request_model = ModelAttr(g)]
  /\ running' = NoFrame
  /\ UNCHANGED <<shared_history, clock, ollama_history, model_attr>>

\* GemniProvider.generate(prompt): contents=[prompt], and the text of the
\* response is returned
GemniGenerate(c) ==
  LET f == frames[c] IN
  /\ running = c
  /\ f.pc = "gem_generate"
  /\ frames' = [frames EXCEPT ![c].pc = "returned",
                              ![c].reply = Completion(f.prompts[1]),
                              ![c].value = Text(Completion(f.prompts[1])),
                              ![c].requests = f.requests + 1]
  /\ running' = NoFrame
  /\ UNCHANGED <<shared_history, clock, gem_history, ollama_history, model_attr>>

\* GemniProvider.generate: the client raises
GemniGenerateFails(c) ==
  /\ running = c
  /\ frames[c].pc = "gem_generate"
  /\ frames' = [frames EXCEPT ![c].pc = "raised", ![c].exc = "BackendError",
                              ![c].requests = frames[c].requests + 1]
  /\ running' = NoFrame
  /\ UNCHANGED <<shared_history, clock, gem_history, ollama_history, model_attr>>

\* OllamaProvider.chat: await self.generate(...), but generate is an async
\* generator function (it holds a yield), and awaiting its result is a TypeError
OllamaChat(c) ==
  /\ running = c
  /\ frames[c].pc = "ollama_chat"
  /\ Raise(c, "TypeError")
  /\ UNCHANGED <<shared_history, clock, gem_history, ollama_history, model_attr>>

FrameStep(c) ==
  \/ ChatAddUser(c)
  \/ ChatAddAsst(c)
  \/ OpenRouterPost(c)
  \/ OpenRouterResponds(c)
  \/ OpenRouterFails(c)
  \/ GenNext(c)
  \/ GenCollect(c)
  \/ RouterDelegate(c)
  \/ RouterResolutionFails(c)
  \/ AbstractCall(c)
  \/ AbstractResponds(c)
  \/ AbstractFails(c)
  \/ GemniChat(c)
  \/ GemniChatFails(c)
  \/ GemniGenerate(c)
  \/ GemniGenerateFails(c)
  \/ OllamaChat(c)


\* p.clear_chat_history()
ClearChatHistory(p) ==
  /\ running = NoFrame
  /\ shared_history' = IF p \in BaseChatProviders THEN <<>> ELSE shared_history
  /\ gem_history' = IF p \in GemniInstances THEN [gem_history EXCEPT ![p] = <<>>]
                    ELSE gem_history
  /\ ollama_history' = IF p = Ollama THEN [defined |-> TRUE, messages |-> <<>>]
                       ELSE ollama_history
  /\ frames' = Overlapped(frames)
  /\ UNCHANGED <<clock, model_attr, running>>

(***************************************************************************)
(* A caller that holds an OpenRouterProvider and a GemniProvider, sets the *)
(* system prompt, and works on the lists get_chat_history gives it.  A     *)
(* message dict made by add_message is identified by its timestamp: the    *)
(* clock gives every dict a different one.                                 *)
(***************************************************************************)
\* the providers whose history the caller reads
HistoryProviders == {OpenRouter, Gemni}

\* nothing returned yet
NoList == [from |-> "", alias |-> FALSE, list |-> <<>>]

\* the dict a caller appends to a list it holds
CallerMessage == [role |-> "user", content |-> <<"forged">>, timestamp |-> -1]

\* the elements of the list the caller holds: GemniProvider.get_chat_history
\* returns self.chat_history itself, so that list is the provider's as long as
\* the provider keeps it
ReturnedList == IF returned.alias THEN gem_history[returned.from] ELSE returned.list

\* provider.system_prompt = prompt
SetSystemPrompt(prompt) ==
  /\ running = NoFrame
  /\ system_prompt # prompt
  /\ system_prompt' = prompt
  /\ UNCHANGED <<provVars, returned, n_caller_ops>>

\* p.get_chat_history(): ChatHistory.get_history returns self.messages.copy(), a
\* new list of the same dicts; GemniProvider returns the list it holds
GetChatHistory(p) ==
  /\ running = NoFrame
  /\ returned' = [from |-> p, alias |-> (p = Gemni), list |-> IF p = Gemni THEN <<>> ELSE History(p)]
  /\ UNCHANGED <<provVars, system_prompt, n_caller_ops>>

\* the caller changes its list to new_list; a list that is the provider's
\* changes there
ReturnedBecomes(new_list) ==
  /\ n_caller_ops < MaxCallerOps
  /\ n_caller_ops' = n_caller_ops + 1
  /\ IF returned.alias
     THEN /\ gem_history' = [gem_history EXCEPT ![returned.from] = new_list]
          /\ UNCHANGED returned
     ELSE /\ returned' = [returned EXCEPT !.list = new_list]
          /\ UNCHANGED gem_history

\* returned.append({...})
ReturnedAppend ==
  /\ running = NoFrame
  /\ returned.from # ""
  /\ ReturnedBecomes(Append(ReturnedList, IF returned.from = Gemni
                                          THEN GemniMessage("user", <<"forged">>)
                                          ELSE CallerMessage))
  /\ UNCHANGED <<shared_history, clock, ollama_history, model_attr, frames, running,
                 system_prompt>>

\* returned.pop()
ReturnedPop ==
  /\ running = NoFrame
  /\ ReturnedList # <<>>
  /\ ReturnedBecomes(SubSeq(ReturnedList, 1, Len(ReturnedList) - 1))
  /\ UNCHANGED <<shared_history, clock, ollama_history, model_attr, frames, running,
                 system_prompt>>

\* the dict d after d[key] = value, for the keys role and content
Edited(d, key) ==
  IF key = "role" THEN [d EXCEPT !.role = "system"] ELSE [d EXCEPT !.content = <<"edited">>]

\* returned[i][key] = value: the dict is changed, in every list that holds it
ReturnedEdit(i, key) ==
  /\ running = NoFrame
  /\ i \in 1..Len(ReturnedList)
  /\ Edited(ReturnedList[i], key) # ReturnedList[i]
  /\ ReturnedBecomes([ReturnedList EXCEPT ![i] = Edited(@, key)])
  /\ shared_history' =
       IF returned.from = OpenRouter
       THEN [j \in 1..Len(shared_history) |->
               IF shared_history[j].timestamp = ReturnedList[i].timestamp
               THEN Edited(shared_history[j], key) ELSE shared_history[j]]
       ELSE shared_history
  /\ UNCHANGED <<clock, ollama_history, model_attr, frames, running, system_prompt>>

\* p.clear_chat_history(): GemniProvider binds a new list, and the list the
\* caller holds is the provider's no longer
CallerClears(p) ==
  /\ ClearChatHistory(p)
  /\ returned' = IF returned.alias /\ returned.from = p
                 THEN [returned EXCEPT !.alias = FALSE, !.list = gem_history[p]]
                 ELSE returned
  /\ UNCHANGED <<system_prompt, n_caller_ops>>

CallerInit ==
  /\ system_prompt = NoSystemPrompt
  /\ returned = NoList
  /\ n_caller_ops = 0

(***************************************************************************)
(* ModelRouterProvider.__init__ and _initialize_providers.                 *)
(***************************************************************************)
\* the methods BaseProvider declares abstract
AbstractMethods == {"generate", "_generate_chat_response"}

\* the methods each provider class defines
ClassMethods ==
  [OpenAIProvider |-> {"__init__", "generate"},
   AnthropicProvider |-> {"__init__", "generate"},
   GemniProvider |-> {"__init__", "generate", "chat", "clear_chat_history",
                      "get_chat_history"},
   GemniSubclass |-> {"__init__", "generate", "chat", "clear_chat_history",
                      "get_chat_history", "_generate_chat_response"},
   OpenRouterProvider |-> {"__init__", "_generate_chat_response", "generate",
                           "list_models"}]

\* the arguments of each __init__ that have no default
RequiredArgs ==
  [OpenAIProvider |-> {"model"},
   AnthropicProvider |-> {"model", "api_key"},
   GemniProvider |-> {"api_key", "model"},
   GemniSubclass |-> {"api_key", "model"},
   OpenRouterProvider |-> {"api_key"}]

\* the arguments _initialize_providers passes
PassedArgs == {"api_key"}

\* the backends _initialize_providers looks for, in its order, and their classes
KnownBackends == <<"openai", "anthropic", "gemini">>
BackendClass ==
  [openai |-> "OpenAIProvider", anthropic |-> "AnthropicProvider", gemini |-> "GemniProvider"]

\* the backend names a configuration may hold
ConfigNames == {"openai", "anthropic", "gemini"}

\* cls(**args): the TypeError it raises, "" when an instance is made
InstantiationError(cls, args) ==
  IF ~(AbstractMethods \subseteq ClassMethods[cls])
  THEN "TypeError: abstract class"
  ELSE IF ~(RequiredArgs[cls] \subseteq args)
  THEN "TypeError: missing argument"
  ELSE ""

\* how a construction ended
Outcome(pc, exc, providers) ==
  [config |-> ctor_config, pc |-> pc, exc |-> exc, providers |-> providers]

\* ModelRouterProvider(config): __init__ up to the call of _initialize_providers
Construct(config) ==
  /\ ctor_pc # "initializing"
  /\ Len(routers) < MaxRouters
  /\ ctor_pc' = "initializing"
  /\ ctor_config' = config
  /\ ctor_providers' = {}
  /\ ctor_k' = 1
  /\ ctor_exc' = ""
  /\ UNCHANGED routers

\* _initialize_providers: one if statement; the provider's constructor may raise
InitializeProvider ==
  LET b == KnownBackends[ctor_k]
      e == InstantiationError(BackendClass[b], PassedArgs) IN
  /\ ctor_pc = "initializing"
  /\ ctor_k <= Len(KnownBackends)
  /\ IF b \notin ctor_config
     THEN /\ ctor_k' = ctor_k + 1
          /\ UNCHANGED <<ctor_pc, ctor_providers, ctor_exc, routers>>
     ELSE IF e = ""
     THEN /\ ctor_providers' = ctor_providers \cup {<<b, BackendClass[b]>>}
          /\ ctor_k' = ctor_k + 1
          /\ UNCHANGED <<ctor_pc, ctor_exc, routers>>
     ELSE /\ ctor_pc' = "raised"
          /\ ctor_exc' = e
          /\ routers' = Append(routers, Outcome("raised", e, ctor_providers))
          /\ UNCHANGED <<ctor_providers, ctor_k>>
  /\ UNCHANGED ctor_config

\* _initialize_providers and __init__ return
ConstructReturns ==
  /\ ctor_pc = "initializing"
  /\ ctor_k > Len(KnownBackends)
  /\ ctor_pc' = "constructed"
  /\ routers' = Append(routers, Outcome("constructed", "", ctor_providers))
  /\ UNCHANGED <<ctor_config, ctor_providers, ctor_k, ctor_exc>>

CtorInit ==
  /\ ctor_pc = "idle"
  /\ ctor_config = {}
  /\ ctor_providers = {}
  /\ ctor_k = 1
  /\ ctor_exc = ""
  /\ routers = <<>>

(***************************************************************************)
(* The constructors of OpenRouterProvider and GemniProvider, and the       *)
(* credential each instance holds.  GemniSubclass is a class that inherits *)
(* GemniProvider.__init__ and supplies _generate_chat_response.            *)
(***************************************************************************)
\* Python values: None, or a text
PyNone == [none |-> TRUE, text |-> <<>>]
Str(t) == [none |-> FALSE, text |-> t]

\* bool(v): None and "" are false
Truthy(v) == ~v.none /\ v.text # <<>>

\* a or b
Or(a, b) == IF Truthy(a) THEN a ELSE b

\* the values given for api_key, and the values os.getenv gives
KeyValues == {PyNone, Str(<<>>), Str(<<"key">>)}
EnvValues == {PyNone, Str(<<"envkey">>)}

\* the classes a caller constructs
CallerClasses == {"OpenRouterProvider", "GemniProvider", "GemniSubclass"}

\* the arguments a caller names in the constructor call
ArgNames == {{"api_key", "model"}, {"model"}}

\* GemniProvider.__init__, line 53: api_key or os.getenv("GEMNI_API_KEY")
GemniKey(key, env) == Or(key, env)

\* cls(api_key=key, model=...) with the environment holding env, or without
\* api_key when names does not hold it: the exception raised and, when none
\* is, the api_key attribute of the new instance
NewProvider(cls, names, key, env) ==
  LET e == InstantiationError(cls, names)
      k == IF cls = "OpenRouterProvider" THEN key ELSE GemniKey(key, env) IN
  [cls |-> cls, names |-> names, key |-> key, env |-> env,
   exc |-> IF e # "" THEN e
           ELSE IF cls # "OpenRouterProvider" /\ ~Truthy(k) THEN "ValueError: API key is required"
           ELSE "",
   api_key |-> IF e = "" THEN k ELSE PyNone]

\* a caller constructs a provider
ConstructProvider(cls, names, key, env) ==
  /\ Len(constructions) < MaxConstructions
  /\ "api_key" \notin names => key = PyNone
  /\ constructions' = Append(constructions, NewProvider(cls, names, key, env))

CredInit == constructions = <<>>

(***************************************************************************)
(* InMemoryVectorDB.                                                       *)
(***************************************************************************)
\* embeddings: vectors of integers whose norms are integers
Vecs == {<<1, 0>>, <<0, 0>>, <<3, 4>>, <<-4, 3>>, <<1, 0, 0>>}

\* the vectors query is given
QueryVecs == Vecs

\* metadata mappings, as sets of key-value pairs; {} is the empty dict
EmptyMeta == {}
Metas == {EmptyMeta, {<<"doc", "a">>}}

\* the default of query's top_k
top_k_default == 5
TopKs == {0, 1, 2, top_k_default}

\* the lists add is given: up to two elements
EmbeddingLists == {<<>>} \cup {<<v>> : v \in Vecs} \cup {<<v, w>> : v, w \in Vecs}
MetadataLists == {<<>>} \cup {<<m>> : m \in Metas} \cup {<<m, n>> : m, n \in Metas}

\* np.dot and np.linalg.norm
RECURSIVE DotFrom(_, _, _)
DotFrom(a, b, i) == IF i > Len(a) THEN 0 ELSE a[i] * b[i] + DotFrom(a, b, i + 1)
Dot(a, b) == DotFrom(a, b, 1)
Norm(v) == CHOOSE n \in 0..5 : n * n = Dot(v, v)

\* the cosine similarity query computes, as a fraction <<numerator, denominator>>
Similarity(q, v) ==
  IF Norm(q) * Norm(v) > 0 THEN <<Dot(q, v), Norm(q) * Norm(v)>> ELSE <<0, 1>>

\* a <= b for fractions with positive denominators
Leq(a, b) == a[1] * b[2] <= b[1] * a[2]

\* np.argsort(similarities): an ordering of the indices by ascending similarity;
\* the default sort kind is not stable, so equal similarities come in any order
Argsorts(sims) ==
  {p \in [1..Len(sims) -> 1..Len(sims)] :
     /\ \A i, j \in 1..Len(sims) : i # j => p[i] # p[j]
     /\ \A i, j \in 1..Len(sims) : i < j => Leq(sims[p[i]], sims[p[j]])}

\* a[start:] of Python, for a list of n elements: the first index kept, from 1
SliceStart(n, start) ==
  IF start < 0 THEN (IF n + start > 0 THEN n + start ELSE 0) + 1
  ELSE (IF start < n THEN start ELSE n) + 1

\* a[-top_k:]
LastK(a, top_k) == SubSeq(a, SliceStart(Len(a), 0 - top_k), Len(a))

NotReversed(a) == a

\* a[::-1]
Reversed(a) == [i \in 1..Len(a) |-> a[Len(a) + 1 - i]]

\* a call and its outcome: for add, the lengths of the lists it was given
NoCall == [op |-> "", exc |-> "", q |-> <<>>, top_k |-> 0, indices |-> <<>>, value |-> <<>>,
           n_embeddings |-> 0, given |-> FALSE, n_metadatas |-> 0]

AddCall(embeddings, given, list, exc) ==
  [NoCall EXCEPT !.op = "add", !.exc = exc, !.n_embeddings = Len(embeddings),
                 !.given = given, !.n_metadatas = Len(list)]

AddBeforeCheck(embeddings, given, list) ==
  LET metas == IF given THEN list ELSE [i \in 1..Len(embeddings) |-> EmptyMeta]
      n == IF Len(embeddings) < Len(metas) THEN Len(embeddings) ELSE Len(metas) IN
  /\ ~given => list = <<>>
  /\ next_id + n - 1 <= MaxAdded
  /\ vectors' = vectors \o SubSeq(embeddings, 1, n)
  /\ metadatas' = metadatas \o SubSeq(metas, 1, n)
  /\ ids' = ids \o [i \in 1..n |-> next_id + i - 1]
  /\ next_id' = next_id + n
  /\ vdb_result' = AddCall(embeddings, given, list,
                         IF Len(embeddings) # Len(metas) THEN "ValueError" ELSE "")

AddIdsByPosition(embeddings, given, list) ==
  LET metas == IF given THEN list ELSE [i \in 1..Len(embeddings) |-> EmptyMeta] IN
  /\ ~given => list = <<>>
  /\ IF Len(embeddings) # Len(metas)
     THEN /\ vdb_result' = AddCall(embeddings, given, list, "ValueError")
          /\ UNCHANGED <<vectors, metadatas, ids, next_id>>
     ELSE /\ next_id + Len(embeddings) - 1 <= MaxAdded
          /\ vectors' = vectors \o embeddings
          /\ metadatas' = metadatas \o metas
          /\ ids' = ids \o [i \in 1..Len(embeddings) |-> Len(ids) + i]
          /\ next_id' = next_id + Len(embeddings)
          /\ vdb_result' = AddCall(embeddings, given, list, "")

\* add(embeddings, metadatas): given is FALSE when metadatas is None
Add(embeddings, given, list) ==
  LET metas == IF given THEN list ELSE [i \in 1..Len(embeddings) |-> EmptyMeta] IN
  /\ ~given => list = <<>>
  /\ IF Len(embeddings) # Len(metas)
     THEN /\ vdb_result' = AddCall(embeddings, given, list, "ValueError")
          /\ UNCHANGED <<vectors, metadatas, ids, next_id>>
     ELSE /\ next_id + Len(embeddings) - 1 <= MaxAdded
          /\ vectors' = vectors \o embeddings
          /\ metadatas' = metadatas \o metas
          /\ ids' = ids \o [i \in 1..Len(embeddings) |-> next_id + i - 1]
          /\ next_id' = next_id + Len(embeddings)
          /\ vdb_result' = AddCall(embeddings, given, list, "")

\* the similarities query computes, one for each stored vector
Similarities(q) == [i \in 1..Len(vectors) |-> Similarity(q, vectors[i])]

QueryPops(q, top_k) ==
  /\ vectors # <<>>
  /\ vectors' = Tail(vectors)
  /\ vdb_result' = [NoCall EXCEPT !.op = "query", !.q = q, !.top_k = top_k]
  /\ UNCHANGED <<metadatas, ids, next_id>>

\* query(embedding, top_k); np.dot raises for vectors of different lengths
Query(q, top_k) ==
  /\ IF vectors = <<>>
     THEN vdb_result' = [NoCall EXCEPT !.op = "query", !.q = q, !.top_k = top_k]
     ELSE IF \E i \in 1..Len(vectors) : Len(vectors[i]) # Len(q)
     THEN vdb_result' = [NoCall EXCEPT !.op = "query", !.q = q, !.top_k = top_k,
                                       !.exc = "ValueError"]
     ELSE \E order \in Argsorts(Similarities(q)) :
            LET top_indices == Reversed(LastK(order, top_k)) IN
            vdb_result' = [NoCall EXCEPT !.op = "query", !.q = q, !.top_k = top_k,
                             !.indices = top_indices,
                             !.value = [i \in 1..Len(top_indices) |->
                                          metadatas[top_indices[i]]]]
  /\ UNCHANGED <<vectors, metadatas, ids, next_id>>

DeleteVectorsOnly(del) ==
  /\ vectors' = SelectSeq(vectors, LAMBDA v : \E i \in 1..Len(ids) :
                                      ids[i] \notin del /\ vectors[i] = v)
  /\ ids' = SelectSeq(ids, LAMBDA id : id \notin del)
  /\ vdb_result' = [NoCall EXCEPT !.op = "delete"]
  /\ UNCHANGED <<metadatas, next_id>>

\* delete(ids)
Delete(del) ==
  LET keep_indices == {i \in 1..Len(ids) : ids[i] \notin del}
      Keep(list) == SelectSeq([i \in 1..Len(list) |-> <<i, list[i]>>],
                              LAMBDA pr : pr[1] \in keep_indices)
      Values(list) == [i \in 1..Len(Keep(list)) |-> Keep(list)[i][2]] IN
  /\ vectors' = Values(vectors)
  /\ metadatas' = Values(metadatas)
  /\ ids' = Values(ids)
  /\ vdb_result' = [NoCall EXCEPT !.op = "delete"]
  /\ UNCHANGED next_id

ClearNothing ==
  /\ vdb_result' = [NoCall EXCEPT !.op = "clear"]
  /\ UNCHANGED <<vectors, metadatas, ids, next_id>>

\* clear()
Clear ==
  /\ vectors' = <<>>
  /\ metadatas' = <<>>
  /\ ids' = <<>>
  /\ vdb_result' = [NoCall EXCEPT !.op = "clear"]
  /\ UNCHANGED next_id

VdbInit ==
  /\ vectors = <<>>
  /\ metadatas = <<>>
  /\ ids = <<>>
  /\ next_id = 1
  /\ vdb_result = NoCall

(***************************************************************************)
(* ChromaDBAdapter.  The collection is chromadb's: what its add does with  *)
(* an id it already holds depends on the chromadb release (it raises, or   *)
(* it leaves the stored record and drops the new one), so both outcomes    *)
(* are steps of the model.                                                 *)
(***************************************************************************)
\* f"doc_{i}" for i in range(n)
DocIds(n) == [i \in 1..n |-> <<"doc", i - 1>>]

\* the ids of the records the collection holds
CollectionIds == {collection[i].id : i \in 1..Len(collection)}

\* the lists add is given here: one or two embeddings
ChromaEmbeddingLists == EmbeddingLists \ {<<>>}

NoChromaCall == [op |-> "", exc |-> "", ids |-> <<>>, n_embeddings |-> 0]

\* the records collection.add is handed
NewRecords(embeddings, metas) ==
  [i \in 1..Len(embeddings) |->
     [id |-> DocIds(Len(embeddings))[i], embedding |-> embeddings[i], metadata |-> metas[i]]]

\* add(embeddings, metadatas): given is FALSE when metadatas is None
ChromaAdd(embeddings, given, list) ==
  LET metas == IF given THEN list ELSE [i \in 1..Len(embeddings) |-> EmptyMeta]
      doc_ids == DocIds(Len(embeddings))
      call == [NoChromaCall EXCEPT !.op = "add", !.n_embeddings = Len(embeddings)] IN
  /\ ~given => list = <<>>
  /\ IF Len(embeddings) # Len(metas)
     THEN /\ chroma_result' = [call EXCEPT !.exc = "ValueError"]
          /\ UNCHANGED collection
     ELSE IF \E i \in 1..Len(doc_ids) : doc_ids[i] \in CollectionIds
     THEN \/ /\ chroma_result' = [call EXCEPT !.ids = doc_ids, !.exc = "DuplicateIDError"]
             /\ UNCHANGED collection
          \/ /\ chroma_result' = [call EXCEPT !.ids = doc_ids]
             /\ collection' = collection \o SelectSeq(NewRecords(embeddings, metas),
                                                     LAMBDA r : r.id \notin CollectionIds)
     ELSE /\ chroma_result' = [call EXCEPT !.ids = doc_ids]
          /\ collection' = collection \o NewRecords(embeddings, metas)

\* delete(ids), for ids the collection holds
ChromaDelete(del) ==
  /\ collection' = SelectSeq(collection, LAMBDA r : r.id \notin del)
  /\ chroma_result' = [NoChromaCall EXCEPT !.op = "delete"]

\* clear(): every id the collection holds is deleted
ChromaClear ==
  /\ collection' = <<>>
  /\ chroma_result' = [NoChromaCall EXCEPT !.op = "clear"]

ChromaInit ==
  /\ collection = <<>>
  /\ chroma_result = NoChromaCall

(***************************************************************************)
(* Tool.__init__.                                                          *)
(***************************************************************************)
\* the names the module exo.tools.base binds, and the builtins a lookup falls
\* back to (those the module's code mentions)
ToolModuleNames == {"Callable", "Dict", "Optional", "Any", "wraps", "Tool", "str"}

\* evaluating the name n in __init__: a local, a name of the module or a
\* builtin, and NameError otherwise
NameLookup(n, locals) == IF n \in locals \cup ToolModuleNames THEN "" ELSE "NameError"

\* the parameters of __init__
ToolInitLocals == {"self", "name", "description", "function", "parameters"}

\* callables: __name__ and __doc__
ToolFunctions == {[name |-> Str(<<"google_search">>), doc |-> Str(<<"Perform a Google search">>)],
                  [name |-> Str(<<"fetch">>), doc |-> PyNone]}

\* the values given for name and description, and for parameters
ToolNames == {PyNone, Str(<<>>), Str(<<"search">>)}
ToolDescriptions == {PyNone, Str(<<>>), Str(<<"Search the web">>)}
ToolParameters == {PyNone, Str(<<"query", "string">>)}

NoTool == [none |-> TRUE]

\* f"Tool {self.name}"
DefaultDescription(name) == Str(<<"Tool">> \o name.text)

\* Tool(name, description, function, parameters): lines 19-22 bind the
\* attributes, line 24 evaluates wraps(function)(this)
NewTool(name, description, function, parameters) ==
  LET bound_name == Or(name, function.name)
      bound_description == Or(description, Or(function.doc, DefaultDescription(bound_name)))
      exc == NameLookup("this", ToolInitLocals) IN
  [name |-> name, description |-> description, function |-> function,
   parameters |-> parameters, exc |-> exc,
   tool |-> IF exc = ""
            THEN [name |-> bound_name, description |-> bound_description,
                  function |-> function, parameters |-> parameters]
            ELSE NoTool]

\* f"{self.name}: {self.description} {self.parameters}"
ToolStr(tool) == tool.name.text \o <<":">> \o tool.description.text \o <<tool.parameters>>

\* a module or a caller constructs a Tool
ConstructTool(name, description, function, parameters) ==
  /\ Len(tools_built) < MaxConstructions
  /\ tools_built' = Append(tools_built, NewTool(name, description, function, parameters))

ToolCtorInit == tools_built = <<>>

(***************************************************************************)
(* Tool.__call__, on Tool objects whose attributes are bound as lines      *)
(* 19-22 of Tool.__init__ bind them.                                       *)
(***************************************************************************)
\* the callables tools wrap
Callables == {"google_search", "scrape_website"}

\* Tool objects: the attribute __call__ reads is function
ToolObjects == {[name |-> f, function |-> f] : f \in Callables}

\* *args and **kwargs of an invocation
NoArgs == [args |-> <<>>, kwargs |-> {}]
ArgLists == {NoArgs,
             [args |-> <<"a">>, kwargs |-> {}],
             [args |-> <<>>, kwargs |-> {<<"query", "a">>}],
             [args |-> <<"b">>, kwargs |-> {<<"selector", "p">>}]}

\* what a callable returns and what it raises
NoReturn == [none |-> TRUE]
CallableResults == {[content |-> "page"], [error |-> "not found"], [empty |-> TRUE]}
CallableErrors == {"RuntimeError", "TypeError"}

\* the invoker calls tool(*args, **kwargs): __call__ calls self.function with them
Invoke(tool, a) ==
  /\ inv_pc \in {"idle", "returned", "raised"}
  /\ n_invocations < MaxInvocations
  /\ n_invocations' = n_invocations + 1
  /\ inv_tool' = tool
  /\ inv_args' = a
  /\ inv_calls' = <<[function |-> tool.function, args |-> a.args, kwargs |-> a.kwargs]>>
  /\ inv_pc' = "in_function"
  /\ inv_result' = NoReturn
  /\ inv_value' = NoReturn
  /\ inv_exc' = ""

\* the callable returns res
FunctionReturns(res) ==
  /\ inv_pc = "in_function"
  /\ inv_result' = res
  /\ inv_pc' = "function_returned"
  /\ UNCHANGED <<inv_tool, inv_args, inv_calls, inv_value, inv_exc, n_invocations>>

\* the callable raises err: __call__ has no try, the error leaves it
FunctionRaises(err) ==
  /\ inv_pc = "in_function"
  /\ inv_exc' = err
  /\ inv_pc' = "raised"
  /\ UNCHANGED <<inv_tool, inv_args, inv_calls, inv_result, inv_value, n_invocations>>

CallReturnsWrapped ==
  /\ inv_pc = "function_returned"
  /\ inv_value' = [result |-> inv_result]
  /\ inv_pc' = "returned"
  /\ UNCHANGED <<inv_tool, inv_args, inv_calls, inv_result, inv_exc, n_invocations>>

\* return self.function(*args, **kwargs)
CallReturns ==
  /\ inv_pc = "function_returned"
  /\ inv_value' = inv_result
  /\ inv_pc' = "returned"
  /\ UNCHANGED <<inv_tool, inv_args, inv_calls, inv_result, inv_exc, n_invocations>>

ToolInit ==
  /\ inv_pc = "idle"
  /\ inv_tool = [name |-> "", function |-> ""]
  /\ inv_args = NoArgs
  /\ inv_calls = <<>>
  /\ inv_result = NoReturn
  /\ inv_value = NoReturn
  /\ inv_exc = ""
  /\ n_invocations = 0

(***************************************************************************)
(* The specifications.                                                     *)
(***************************************************************************)
ProvInit ==
  /\ shared_history = <<>>
  /\ clock = 0
  /\ gem_history = [g \in GemniInstances |-> <<>>]
  /\ ollama_history = NoAttribute
  /\ model_attr = [openai |-> NoModel, gemini |-> NoModel]
  /\ frames = <<>>
  /\ running = NoFrame

AgentInit ==
  /\ agent_pc = "idle"
  /\ query = ""
  /\ conversation_history = <<>>
  /\ step = 0
  /\ current_prompt = NoPrompt
  /\ response = <<>>
  /\ tool_name = <<>>
  /\ tool_params = NoParams
  /\ agent_result = NoResult
  /\ agent_exc = "none"
  /\ sent_prompt = GeneratePrompt(NoPrompt, <<>>)
  /\ gen_calls = 0
  /\ tool_calls = 0
  /\ responses = <<>>
  /\ dispatched = <<>>
  /\ n_agent_calls = 0


Init ==
  /\ AgentInit /\ ProvInit /\ CtorInit /\ VdbInit /\ CallerInit /\ ToolInit /\ CredInit
  /\ ChromaInit /\ ToolCtorInit

AgentNext ==
  /\ \/ \E q \in Queries : AgentCall(q)
     \/ AgentStep
  /\ UNCHANGED <<provVars, ctorVars, vdbVars, callerVars, toolVars, credVars, chromaVars,
               toolInitVars>>

SpecAgent == Init /\ [][AgentNext]_vars

\* the providers a caller holds
CallerProviders == {OpenRouter, Gemni, Ollama, Router}

ProvNext ==
  /\ \/ \E p \in CallerProviders, op \in {"chat", "generate"}, single \in BOOLEAN,
           model \in ModelArgs :
           /\ ~(p = Ollama /\ op = "generate")
           /\ Start(p, op, single, model)
     \/ \E c \in DOMAIN frames : FrameStep(c)
     \/ \E p \in CallerProviders : ClearChatHistory(p)
  /\ UNCHANGED <<agentVars, ctorVars, vdbVars, callerVars, toolVars, credVars, chromaVars,
               toolInitVars>>

SpecProviders == Init /\ [][ProvNext]_vars

\* the steps of a chat on the caller's OpenRouterProvider or GemniProvider
CallerChatStep(c) ==
  \/ ChatAddUser(c)
  \/ OpenRouterPost(c)
  \/ OpenRouterResponds(c)
  \/ OpenRouterFails(c)
  \/ ChatAddAsst(c)
  \/ GemniChat(c)
  \/ GemniChatFails(c)
  \/ GenNext(c)
  \/ GenCollect(c)
  \/ GemniGenerate(c)
  \/ GemniGenerateFails(c)

CallerNext ==
  /\ \/ /\ \/ \E p \in HistoryProviders, op \in {"chat", "generate"} :
                Start(p, op, TRUE, NoModel)
           \/ \E c \in DOMAIN frames : CallerChatStep(c)
        /\ UNCHANGED callerVars
     \/ \E p \in HistoryProviders : CallerClears(p)
     \/ \E prompt \in SystemPrompts : SetSystemPrompt(prompt)
     \/ \E p \in HistoryProviders : GetChatHistory(p)
     \/ ReturnedAppend
     \/ ReturnedPop
     \/ \E i \in 1..(2 * MaxProviderCalls + MaxCallerOps), key \in {"role", "content"} :
          ReturnedEdit(i, key)
  /\ UNCHANGED <<agentVars, ctorVars, vdbVars, toolVars, credVars, chromaVars,
               toolInitVars>>

SpecCaller == Init /\ [][CallerNext]_vars

ToolNext ==
  /\ \/ \E tool \in ToolObjects, a \in ArgLists : Invoke(tool, a)
     \/ \E res \in CallableResults : FunctionReturns(res)
     \/ \E err \in CallableErrors : FunctionRaises(err)
     \/ CallReturns
  /\ UNCHANGED <<agentVars, provVars, ctorVars, vdbVars, callerVars, credVars, chromaVars,
               toolInitVars>>

SpecTool == Init /\ [][ToolNext]_vars

CredNext ==
  /\ \E cls \in CallerClasses, names \in ArgNames, key \in KeyValues, env \in EnvValues :
       ConstructProvider(cls, names, key, env)
  /\ UNCHANGED <<agentVars, provVars, ctorVars, vdbVars, callerVars, toolVars, chromaVars,
               toolInitVars>>

SpecCredentials == Init /\ [][CredNext]_vars

ChromaNext ==
  /\ \/ \E embeddings \in ChromaEmbeddingLists, given \in BOOLEAN, list \in MetadataLists :
           ChromaAdd(embeddings, given, list)
     \/ \E del \in (SUBSET CollectionIds) \ {{}} : ChromaDelete(del)
     \/ ChromaClear
  /\ UNCHANGED <<agentVars, provVars, ctorVars, vdbVars, callerVars, toolVars, credVars,
               toolInitVars>>

SpecChroma == Init /\ [][ChromaNext]_vars

ToolCtorNext ==
  /\ \E name \in ToolNames, description \in ToolDescriptions, function \in ToolFunctions,
        parameters \in ToolParameters :
       ConstructTool(name, description, function, parameters)
  /\ UNCHANGED <<agentVars, provVars, ctorVars, vdbVars, callerVars, toolVars, credVars,
                 chromaVars>>

SpecToolInit == Init /\ [][ToolCtorNext]_vars

CtorNext ==
  /\ \/ \E config \in SUBSET ConfigNames : Construct(config)
     \/ InitializeProvider
     \/ ConstructReturns
  /\ UNCHANGED <<agentVars, provVars, vdbVars, callerVars, toolVars, credVars, chromaVars,
               toolInitVars>>

SpecRouterInit == Init /\ [][CtorNext]_vars

VdbNext ==
  /\ \/ \E embeddings \in EmbeddingLists, given \in BOOLEAN, list \in MetadataLists :
           Add(embeddings, given, list)
     \/ \E q \in QueryVecs, top_k \in TopKs : Query(q, top_k)
     \/ \E del \in SUBSET (1..MaxAdded) : Delete(del)
     \/ Clear
  /\ UNCHANGED <<agentVars, provVars, ctorVars, callerVars, toolVars, credVars, chromaVars,
               toolInitVars>>

SpecVectorDB == Init /\ [][VdbNext]_vars

(***************************************************************************)
(* Properties of webscraper_agent.                                         *)
(***************************************************************************)
\* the tokens of r that are not whitespace
RECURSIVE Words(_)
Words(r) == IF r = <<>> THEN <<>>
            ELSE IF Head(r) = WS THEN Words(Tail(r))
            ELSE <<Head(r)>> \o Words(Tail(r))

\* r follows the protocol of the system prompt: free text without markers,
\* then USE_TOOL: <name> PARAMETERS: <literal>, and nothing after it
IsToolRequest(r) ==
  LET w == Words(r) IN
  /\ Len(w) >= 4
  /\ w[Len(w) - 3] = USE_TOOL
  /\ w[Len(w) - 2] \notin {USE_TOOL, PARAMETERS}
  /\ w[Len(w) - 1] = PARAMETERS
  /\ w[Len(w)] \in WellFormedLiterals
  /\ \A i \in 1..(Len(w) - 4) : w[i] \notin {USE_TOOL, PARAMETERS}
RequestedTool(r) == LET w == Words(r) IN w[Len(w) - 2]
RequestedParams(r) == LET w == Words(r) IN LiteralValue[w[Len(w)]]

\* a well-formed request for google_search or scrape_website
IsKnownToolRequest(r) == IsToolRequest(r) /\ RequestedTool(r) \in KnownTools
\* a well-formed request for any other tool name
IsUnknownToolRequest(r) == IsToolRequest(r) /\ RequestedTool(r) \notin KnownTools

\* what is left of the call: 0 once it has ended
AgentMeasure ==
  IF ~AgentRunning THEN 0
  ELSE 3 * (max_steps - step) + 1 +
       (CASE agent_pc = "awaiting_model" -> 2
          [] agent_pc = "parsing" -> 1
          [] agent_pc = "dispatching" -> 0)

\* C1: whatever the model answers, one webscraper_agent call makes at most 5
\* provider.generate calls and at most 5 tool invocations and cannot run for
\* ever: every step of a running call (a model response, a parse, a tool
\* coming back) brings it strictly closer to its end.
C1_BoundedLoop ==
  [][/\ gen_calls' <= max_steps
     /\ tool_calls' <= max_steps
     /\ AgentMeasure' >= 0
     /\ AgentRunning => AgentMeasure' < AgentMeasure]_vars

C1_Witness ==
  agent_pc = "returned" /\ gen_calls = max_steps /\ tool_calls = max_steps

\* C2: if every model response of a call is a well-formed request for a
\* known tool and every tool call returns, the call returns the sentinel
\* answer and exactly max_steps steps.
C2_AlwaysToolSentinel ==
  (/\ AgentEnded
   /\ agent_exc \notin {"ToolError", "BackendError"}
   /\ \A i \in 1..Len(responses) : IsKnownToolRequest(responses[i]))
  => /\ agent_pc = "returned"
     /\ agent_result.final_answer = Sentinel
     /\ agent_result.final_answer \notin Responses
     /\ Len(agent_result.steps) = max_steps
     /\ Len(responses) = max_steps

C2_Witness ==
  /\ agent_pc = "returned"
  /\ Len(responses) = max_steps
  /\ \A i \in 1..Len(responses) : IsKnownToolRequest(responses[i])

\* C3: if the first k responses (k < 5) are well-formed requests for known
\* tools and response k+1 has no USE_TOOL: marker, the call returns exactly
\* k steps and response k+1 as the final answer, after k+1 model calls.
C3_FinalAnswerAfterK ==
  (/\ AgentEnded
   /\ Len(responses) >= 1
   /\ Len(responses) - 1 < max_steps
   /\ \A i \in 1..(Len(responses) - 1) : IsKnownToolRequest(responses[i])
   /\ ~Contains(responses[Len(responses)], USE_TOOL))
  => /\ agent_pc = "returned"
     /\ Len(agent_result.steps) = Len(responses) - 1
     /\ agent_result.final_answer = responses[Len(responses)]
     /\ gen_calls = Len(responses)
     /\ step = Len(responses) - 1

C3_Witness ==
  /\ agent_pc = "returned"
  /\ Len(responses) = 2
  /\ IsKnownToolRequest(responses[1])
  /\ ~Contains(responses[2], USE_TOOL)
  /\ Len(agent_result.steps) = 1

\* C4 (as claimed): a malformed parameter literal, a missing PARAMETERS:
\* segment or a raising tool never makes webscraper_agent raise.
C4_NoRaiseOnToolFailure ==
  ~(agent_pc = "raised" /\ agent_exc \in {"IndexError", "SyntaxError", "ToolError"})

\* the step the loop records for a well-formed request r for an unknown tool
UnknownToolStep(r) ==
  [step |-> step, tool |-> <<RequestedTool(r)>>, parameters |-> RequestedParams(r),
   result |-> UnknownToolResult]

\* C5 (as claimed): on a well-formed request for an unknown tool no tool is
\* invoked, an 'Unknown tool' step with that name and parameters is
\* recorded, and the loop goes on to the next model call.
C5_UnknownToolNextModelCall ==
  [][(agent_pc = "parsing" /\ IsUnknownToolRequest(response))
     => /\ tool_calls' = tool_calls
        /\ conversation_history' = Append(conversation_history, UnknownToolStep(response))
        /\ agent_exc' = "none"
        /\ agent_pc' = "awaiting_model"
        /\ gen_calls' = gen_calls + 1]_vars

\* C5 (amended): ... and the loop goes on to the next model call, unless
\* this was the fifth step, in which case the call returns the steps with
\* the sentinel answer.
C5_UnknownToolContinues ==
  [][(agent_pc = "parsing" /\ IsUnknownToolRequest(response))
     => /\ tool_calls' = tool_calls
        /\ conversation_history' = Append(conversation_history, UnknownToolStep(response))
        /\ agent_exc' = "none"
        /\ IF step + 1 < max_steps
           THEN agent_pc' = "awaiting_model" /\ gen_calls' = gen_calls + 1
           ELSE /\ agent_pc' = "returned"
                /\ gen_calls' = gen_calls
                /\ agent_result'.steps = conversation_history'
                /\ agent_result'.final_answer = Sentinel]_vars

C5_Witness ==
  /\ agent_pc = "awaiting_model"
  /\ Len(conversation_history) >= 1
  /\ conversation_history[Len(conversation_history)].result = UnknownToolResult
  /\ IsUnknownToolRequest(response)
  /\ tool_calls = 0

\* C6: a returned result carries the caller's query and exactly the steps
\* dispatched in this call, in order, the i-th (from 0) with step index i.
C6_ResultIsThisCallsSteps ==
  agent_pc = "returned"
  => /\ agent_result.query = query
     /\ Len(agent_result.steps) = Len(dispatched)
     /\ \A i \in 1..Len(dispatched) :
          /\ agent_result.steps[i].step = i - 1
          /\ agent_result.steps[i].tool = dispatched[i][1]
          /\ agent_result.steps[i].parameters = dispatched[i][2]
          /\ agent_result.steps[i].result = dispatched[i][3]

C6_Witness ==
  /\ agent_pc = "returned"
  /\ n_agent_calls = 2
  /\ Len(agent_result.steps) = 2
  /\ agent_result.steps[1].tool # agent_result.steps[2].tool

\* a step is recorded in this transition, and the step it is
StepRecorded == Len(conversation_history') = Len(conversation_history) + 1
NewStep == conversation_history'[Len(conversation_history')]

\* the tool callable that was invoked comes back, or raises, in this transition
DispatchEnds == agent_pc = "dispatching" /\ agent_pc' # "dispatching"

\* C28 (as claimed): every tool dispatch is followed by another model call
\* whose prompt carries that tool's result; the loop never ends directly after
\* dispatching a tool.
C28_DispatchAlwaysModelCall ==
  [][(DispatchEnds \/ StepRecorded)
     => /\ StepRecorded
        /\ agent_pc' = "awaiting_model"
        /\ gen_calls' = gen_calls + 1
        /\ sent_prompt'.task = ToolPrompt(NewStep.tool, NewStep.result)]_vars

\* C28 (amended): every step the loop records is followed by another model
\* call whose prompt carries that step's result, except the fifth step of a
\* call: after it the call returns the steps with the sentinel answer and the
\* model is not called again.  A dispatch whose tool raises records no step
\* and ends the call with the exception.
C28_DispatchThenModelCall ==
  [][/\ StepRecorded
        => IF step' < max_steps
           THEN /\ agent_pc' = "awaiting_model"
                /\ gen_calls' = gen_calls + 1
                /\ sent_prompt'.task = ToolPrompt(NewStep.tool, NewStep.result)
                /\ sent_prompt'.history = conversation_history'
           ELSE /\ step' = max_steps
                /\ agent_pc' = "returned"
                /\ gen_calls' = gen_calls
                /\ agent_result'.steps = conversation_history'
                /\ agent_result'.final_answer = Sentinel
     /\ DispatchEnds
        => \/ StepRecorded
           \/ /\ agent_pc' = "raised"
              /\ agent_exc' = "ToolError"
              /\ conversation_history' = conversation_history
              /\ gen_calls' = gen_calls]_vars

\* after two tool calls that returned, the model is called a third time with
\* the result of the second tool in its prompt
C28_Witness ==
  /\ agent_pc = "awaiting_model"
  /\ tool_calls = 2
  /\ Len(conversation_history) = 2
  /\ gen_calls = 3
  /\ sent_prompt.task = ToolPrompt(conversation_history[2].tool, conversation_history[2].result)

\* provider.generate is called in this transition
ModelCalled == agent_pc # "awaiting_model" /\ agent_pc' = "awaiting_model"

\* C29: the prompt of the first model call of a call has the caller's query
\* as its task; the prompt of every model call after a tool dispatch has
\* "Tool <name> returned: <result>" for the tool dispatched last, the name the
\* model gave and the result the tool returned, and the steps recorded so far.
C29_PromptContents ==
  [][/\ \A q \in Queries :
          AgentCall(q) => /\ ModelCalled
                          /\ sent_prompt'.task = <<q>>
     /\ (ModelCalled /\ step' = 0) => \E q \in Queries : AgentCall(q)
     /\ (ModelCalled /\ step' > 0)
        => /\ StepRecorded
           /\ NewStep.tool = ParsedName(response)
           /\ \A res \in ToolResults : ToolReturns(res) => NewStep.result = res
           /\ SubSeq(sent_prompt'.task, 1, 4)
                = <<"Tool", ParsedName(response), "returned:", NewStep.result>>
           /\ sent_prompt'.history = conversation_history'
           /\ Len(sent_prompt'.history) = step'
           /\ \A i \in 1..step' : sent_prompt'.history[i].step = i - 1]_vars

\* the second model call of a call, after a known tool returned: its prompt
\* names the tool and holds the one step recorded
C29_Witness ==
  /\ agent_pc = "awaiting_model"
  /\ step = 1
  /\ tool_calls = 1
  /\ IsKnownTool(sent_prompt.task[2])
  /\ Len(sent_prompt.history) = 1
  /\ sent_prompt.history[1].result = sent_prompt.task[4]

\* the text of s after the first occurrence of the marker m, and the text of
\* s before it (all of s when m does not occur)
FirstAt(s, m) == CHOOSE i \in 1..Len(s) : s[i] = m /\ \A j \in 1..(i - 1) : s[j] # m
After(s, m) == SubSeq(s, FirstAt(s, m) + 1, Len(s))
Before(s, m) == IF Contains(s, m) THEN SubSeq(s, 1, FirstAt(s, m) - 1) ELSE s

\* what follows the first USE_TOOL: marker of a response, up to the next one
FirstRequest(r) == Before(After(r, USE_TOOL), USE_TOOL)

\* the tool name and the parameters of that request
FirstName(r) == strip(Before(FirstRequest(r), PARAMETERS))
FirstParameters(r) == eval(strip(Before(After(FirstRequest(r), PARAMETERS), PARAMETERS)))

\* the steps recorded so far for a known tool
KnownSteps == {i \in 1..Len(conversation_history) : IsKnownTool(conversation_history[i].tool)}

\* C39: each model response causes at most one tool invocation and at most
\* one recorded step, whatever markers it holds: the i-th step of a call comes
\* from the i-th response, with the name and the parameters that follow the
\* first USE_TOOL: marker of that response, and the tool callables were
\* invoked once for each step with a known tool (and once more while a
\* dispatch is under way or has raised).
C39_OneDispatchPerResponse ==
  /\ Len(conversation_history) <= Len(responses)
  /\ Len(responses) <= Len(conversation_history) + 1
  /\ \A i \in 1..Len(conversation_history) :
       /\ conversation_history[i].tool = FirstName(responses[i])
       /\ conversation_history[i].parameters = FirstParameters(responses[i])
  /\ tool_calls = Cardinality(KnownSteps)
                  + (IF agent_pc = "dispatching" \/ agent_exc = "ToolError" THEN 1 ELSE 0)
  /\ agent_pc = "dispatching"
     => /\ Len(responses) = Len(conversation_history) + 1
        /\ tool_name = FirstName(responses[Len(responses)])
        /\ tool_params = FirstParameters(responses[Len(responses)])

\* a response with two USE_TOOL: markers and one with two PARAMETERS: markers
\* have each been answered by one step
C39_Witness ==
  /\ Len(conversation_history) = 2
  /\ tool_calls = 2
  /\ \E i, j \in 1..2 :
       /\ Len(split(responses[i], USE_TOOL)) = 3
       /\ Len(split(responses[j], PARAMETERS)) = 3
       /\ Len(split(responses[j], USE_TOOL)) = 2

(***************************************************************************)
(* Properties of the provider layer.                                       *)
(***************************************************************************)
Last(h) == h[Len(h)]

\* the roles and contents of a message list, without the timestamps
Turns(h) == [i \in 1..Len(h) |-> [role |-> h[i].role, content |-> h[i].content]]

\* frame c of the next state is over, and was not in this one
Returns(c) == frames[c].pc # "returned" /\ frames'[c].pc = "returned"
Ends(c) == frames[c].pc \notin Over /\ frames'[c].pc \in Over

\* frame c sends a request to its backend in this step
Requests(c) == frames'[c].requests > frames[c].requests

\* the request of frame c is made by a chat: the call is a chat, or the Router
\* has delegated it to a provider's chat
RequestInChat(c) == frames[c].op = "chat" \/ frames[c].cur \in {RouterOpenAI, RouterGemni}

\* C7: within one chat call, when the backend is called the context already
\* ends with this call's user message and does not hold the reply yet, and
\* when chat returns, after at least one backend request, the context holds
\* the reply as an assistant message.
C7_ChatStepOrder ==
  [][\A c \in DOMAIN frames :
       /\ (Requests(c) /\ RequestInChat(c))
          => /\ frames'[c].ctx_at_request # <<>>
             /\ Last(frames'[c].ctx_at_request).role = "user"
             /\ Last(frames'[c].ctx_at_request).content = CurrentPrompt(frames[c])
             /\ \A i \in 1..Len(frames'[c].ctx_at_request) :
                  frames'[c].ctx_at_request[i].content # Completion(CurrentPrompt(frames[c]))
       /\ (Returns(c) /\ frames[c].op = "chat")
          => /\ frames'[c].requests >= 1
             /\ frames'[c].value.kind = "text"
             /\ \E i \in 1..Len(History(frames[c].entry)') :
                  /\ History(frames[c].entry)'[i].role = "assistant"
                  /\ History(frames[c].entry)'[i].content = frames'[c].value.text]_vars

\* a chat through BaseProvider.chat has returned its reply while another call
\* was in flight
C7_Witness ==
  \E c \in DOMAIN frames :
    /\ frames[c].op = "chat"
    /\ frames[c].entry = OpenRouter
    /\ frames[c].pc = "returned"
    /\ ~frames[c].alone
    /\ Last(frames[c].ctx_at_request).content = frames[c].prompts[1]
    /\ frames[c].value = Text(Completion(frames[c].prompts[1]))

\* the context of p was empty when frame c started
StartedEmpty(c, p) ==
  IF p \in BaseChatProviders THEN frames[c].ctx_at_start.shared = <<>>
  ELSE IF p \in GemniInstances THEN frames[c].ctx_at_start.gem[p] = <<>>
  ELSE TRUE

\* C8: a successful chat on an empty context, with nothing else done on the
\* providers meanwhile, leaves exactly the user message and the assistant
\* message holding the returned text; and after clear_chat_history,
\* get_chat_history returns an empty sequence.
C8_ChatAppendsTwoMessages ==
  [][/\ \A c \in DOMAIN frames :
          (/\ Returns(c)
           /\ frames[c].op = "chat"
           /\ frames[c].alone
           /\ StartedEmpty(c, frames[c].entry))
          => Turns(History(frames[c].entry)') =
               <<[role |-> "user", content |-> frames[c].prompts[1]],
                 [role |-> "assistant", content |-> frames'[c].value.text]>>
     /\ \A p \in CallerProviders :
          ClearChatHistory(p) => get_chat_history(p)' = [exc |-> "", value |-> <<>>]]_vars

\* C9: generate is stateless: when a generate call that nothing overlapped
\* ends, every chat context holds the messages it held when the call started.
C9_GenerateLeavesContext ==
  [][\A c \in DOMAIN frames :
       (Ends(c) /\ frames[c].op = "generate" /\ frames[c].alone)
       => Contexts' = frames[c].ctx_at_start]_vars

C11_BackendErrorPropagates ==
  [][\A c \in DOMAIN frames :
       /\ (frames[c].exc = "" /\ frames'[c].exc = "BackendError")
          => /\ frames'[c].pc = "raised"
             /\ frames'[c].value = NoValue
             /\ frames'[c].requests = frames[c].k
       /\ frames[c].exc = "BackendError"
          => /\ frames'[c].pc = "raised"
             /\ frames'[c].requests = frames[c].requests
             /\ frames'[c].value = NoValue]_vars

\* a generate of two prompts through the Router has failed on its second prompt,
\* and a chat has failed too
C11_Witness ==
  /\ \E c \in DOMAIN frames :
       /\ frames[c].op = "generate"
       /\ frames[c].entry = Router
       /\ frames[c].pc = "raised"
       /\ frames[c].exc = "BackendError"
       /\ frames[c].requests = 2
  /\ \E c \in DOMAIN frames :
       /\ frames[c].op = "chat"
       /\ frames[c].pc = "raised"
       /\ frames[c].exc = "BackendError"
       /\ frames[c].requests = 1

\* the Router resolves the identifier of frame c in this step
Resolves(c) == running = c /\ frames[c].pc = "rt_resolve" /\ frames'[c] # frames[c]

\* the backend name b and the model name m of an identifier <<b, "/", m>>
BackendOf(id) == id[1]
ModelOf(id) == <<id[3]>>

\* C12: a Router call with identifier b/m raises a resolution error without
\* delegating when b has no provider or m is not in b's model list; otherwise
\* it is delegated to b's provider, whose result the Router's chat returns.
C12_RouterResolution ==
  [][\A c \in DOMAIN frames :
       /\ Resolves(c)
          => LET id == RequestedModel(frames[c]) IN
             IF BackendOf(id) \in DOMAIN Providers /\ ModelOf(id) \in Config[BackendOf(id)]
             THEN /\ frames'[c].cur = Providers[BackendOf(id)]
                  /\ frames'[c].pc \in {"chat_add_user", "gem_chat"}
                  /\ frames'[c].exc = ""
             ELSE /\ frames'[c].pc = "raised"
                  /\ frames'[c].exc \in {"ValueError: provider not configured",
                                         "ValueError: model not available"}
                  /\ frames'[c].cur = Router
                  /\ frames'[c].requests = frames[c].requests
       /\ (Returns(c) /\ frames[c].op = "chat" /\ frames[c].entry = Router)
          => /\ frames'[c].requests = 1
             /\ frames'[c].value = Text(Completion(frames[c].prompts[1]))]_vars

\* one Router call was refused for an unlisted model and another was delegated
\* and has returned
C12_Witness ==
  /\ \E c \in DOMAIN frames :
       /\ frames[c].entry = Router
       /\ frames[c].model = <<"openai", "/", "davinci">>
       /\ frames[c].pc = "raised"
       /\ frames[c].requests = 0
  /\ \E c \in DOMAIN frames :
       /\ frames[c].entry = Router
       /\ frames[c].model = <<"gemini", "/", "gemini-pro">>
       /\ frames[c].pc = "returned"

\* C13: on successful resolution the Router sets the resolved provider's model
\* attribute to the requested model name before the delegated call starts, and
\* a call that no other call overlaps issues its backend request with that model.
C13_ModelSetBeforeDelegation ==
  [][\A c \in DOMAIN frames :
       LET id == RequestedModel(frames[c]) IN
       /\ (Resolves(c) /\ frames'[c].pc # "raised")
          => /\ model_attr'[BackendOf(id)] = ModelOf(id)
             /\ frames'[c].requests = frames[c].requests
       /\ (Requests(c) /\ frames[c].entry = Router /\ frames[c].alone)
          => frames'[c].request_model = ModelOf(id)]_vars

\* a Router chat for openai/gpt-4 that nothing overlapped has sent its request
\* with the model gpt-4
C13_Witness ==
  \E c \in DOMAIN frames :
    /\ frames[c].entry = Router
    /\ frames[c].model = <<"openai", "/", "gpt-4">>
    /\ frames[c].alone
    /\ frames[c].requests = 1
    /\ frames[c].request_model = <<"gpt-4">>

\* frame c is a chat on the OpenRouterProvider
OpenRouterChat(c) == frames[c].op = "chat" /\ frames[c].entry = OpenRouter

\* the positions in h of the messages with the given role and content
Positions(h, role, content) ==
  {i \in 1..Len(h) : h[i].role = role /\ h[i].content = content}

\* C25: a chat that awaits its backend has given up control, and a second chat
\* on the shared context that appends its user message meanwhile does so behind
\* the first chat's user message and before either chat's assistant message:
\* the context then holds both user messages and neither reply.
C25_ChatsInterleave ==
  [][/\ \A c \in DOMAIN frames' : frames'[c].pc \in Suspended => running' # c
     /\ \A c, d \in DOMAIN frames :
          (/\ c # d
           /\ OpenRouterChat(c) /\ frames[c].pc = "orp_wait"
           /\ Positions(shared_history, "user", frames[c].prompts[1]) # {}
           /\ OpenRouterChat(d) /\ frames[d].pc = "chat_add_user"
           /\ frames'[d].pc # "chat_add_user")
          => /\ Len(shared_history') = Len(shared_history) + 1
             /\ Last(shared_history').role = "user"
             /\ Last(shared_history').content = frames[d].prompts[1]
             /\ \A i \in Positions(shared_history', "user", frames[c].prompts[1]) :
                  i < Len(shared_history')
             /\ Positions(shared_history', "assistant", Completion(frames[c].prompts[1])) = {}
             /\ Positions(shared_history', "assistant", Completion(frames[d].prompts[1])) = {}]_vars

\* two chats have returned and the context holds user, user, assistant,
\* assistant: both user messages before either reply
C25_Witness ==
  /\ Len(frames) = 2
  /\ OpenRouterChat(1) /\ OpenRouterChat(2)
  /\ frames[1].pc = "returned" /\ frames[2].pc = "returned"
  /\ Turns(shared_history) =
       <<[role |-> "user", content |-> frames[1].prompts[1]],
         [role |-> "user", content |-> frames[2].prompts[1]],
         [role |-> "assistant", content |-> frames[1].value.text],
         [role |-> "assistant", content |-> frames[2].value.text]>>

\* frame c is a Router call that has sent a request to its backend
RouterRequested(c) == frames[c].entry = Router /\ frames[c].requests >= 1

\* the model name that frame c asked the Router for
OwnModel(c) == ModelOf(RequestedModel(frames[c]))

\* frames c and d are Router calls for different models of the same backend
SameBackendOtherModel(c, d) ==
  /\ c # d
  /\ frames[c].entry = Router /\ frames[d].entry = Router
  /\ BackendOf(RequestedModel(frames[c])) = BackendOf(RequestedModel(frames[d]))
  /\ OwnModel(c) # OwnModel(d)

\* frames c and d are both waiting for their backend
BothInFlight(c, d) == frames[c].pc \in Suspended /\ frames[d].pc \in Suspended

ChatStepOn(p) ==
  \E c \in DOMAIN frames :
    frames[c].entry = p /\ frames[c].op = "chat" /\ frames'[c] # frames[c]

\* C27: every provider has a context of its own: a chat or a
\* clear_chat_history on one provider the caller constructed never changes
\* what get_chat_history returns on another.
C27_OwnContextPerProvider ==
  [][\A p, q \in CallerProviders :
       (p # q /\ (ChatStepOn(p) \/ ClearChatHistory(p)))
       => get_chat_history(q)' = get_chat_history(q)]_vars

(***************************************************************************)
(* Properties of the Router's construction.                                *)
(***************************************************************************)
\* C14: constructing a Router from a configuration succeeds and leaves one
\* provider for each backend name of the configuration and none for any other.
C14_ConstructionPerBackend ==
  \A i \in 1..Len(routers) :
    /\ routers[i].pc = "constructed"
    /\ {pr[1] : pr \in routers[i].providers} = routers[i].config
    /\ Cardinality(routers[i].providers) = Cardinality(routers[i].config)

(***************************************************************************)
(* Properties of InMemoryVectorDB.                                         *)
(***************************************************************************)
\* the records of the store: the three lists as one value
Store == <<vectors, metadatas, ids>>

\* the similarity of the i-th stored vector to the vector of the last query
Sim(i) == Similarity(vdb_result.q, vectors[i])
SameSim(i, j) == Leq(Sim(i), Sim(j)) /\ Leq(Sim(j), Sim(i))

\* the last call was a query that returned
Queried == vdb_result.op = "query" /\ vdb_result.exc = ""

\* the indices the last query returned
Returned == {vdb_result.indices[i] : i \in 1..Len(vdb_result.indices)}

Min(a, b) == IF a < b THEN a ELSE b

\* C15: add is all-or-nothing: with as many metadatas as embeddings, or with
\* metadatas omitted, the three lists grow by the number of embeddings; with
\* different counts the call raises and the store is what it was.
C15_AddAllOrNothing ==
  [][vdb_result'.op = "add"
     => LET n == vdb_result'.n_embeddings IN
        IF ~vdb_result'.given \/ vdb_result'.n_metadatas = n
        THEN /\ vdb_result'.exc = ""
             /\ Len(vectors') = Len(vectors) + n
             /\ Len(metadatas') = Len(metadatas) + n
             /\ Len(ids') = Len(ids) + n
             /\ ~vdb_result'.given
                => \A i \in 1..n : metadatas'[Len(metadatas) + i] = EmptyMeta
        ELSE /\ vdb_result'.exc = "ValueError"
             /\ Store' = Store]_vars

\* an add with different counts was refused on a store that holds a record
C15_Witness ==
  /\ vdb_result.op = "add"
  /\ vdb_result.exc = "ValueError"
  /\ Len(vectors) = 1

\* C16: query never changes the stored vectors, metadatas and ids.
C16_QueryKeepsStore ==
  [][vdb_result'.op = "query" => Store' = Store]_vars

\* a query has returned one of two stored records
C16_Witness ==
  /\ vdb_result.op = "query"
  /\ Len(vectors) = 2
  /\ Len(vdb_result.value) = 1

\* C17: query on a store of n records returns exactly min(top_k, n) metadata
\* mappings, for every top_k >= 0.
C17_QueryCount ==
  Queried
  => Len(vdb_result.value) = Min(vdb_result.top_k, Len(vectors))

\* C18: query returns records in descending order of cosine similarity, each
\* at least as similar as every record not returned; the similarity is 0 when
\* a norm is zero, 1 for identical non-zero vectors, 0 for orthogonal ones.
C18_DescendingSimilarity ==
  /\ Queried
     => /\ \A i, j \in 1..Len(vdb_result.indices) :
             i < j => Leq(Sim(vdb_result.indices[j]), Sim(vdb_result.indices[i]))
        /\ \A i \in Returned, r \in (1..Len(vectors)) \ Returned : Leq(Sim(r), Sim(i))
        /\ \A i \in 1..Len(vdb_result.indices) :
             vdb_result.value[i] = metadatas[vdb_result.indices[i]]
  /\ \A q, v \in {w \in Vecs : Len(w) = 2} :
       /\ (Dot(q, q) = 0 \/ Dot(v, v) = 0) => Similarity(q, v)[1] = 0
       /\ (q = v /\ Dot(q, q) > 0) => Similarity(q, v)[1] = Similarity(q, v)[2]
       /\ Dot(q, v) = 0 => Similarity(q, v)[1] = 0

\* a query for one record of two with different similarities has returned
C18_Witness ==
  /\ vdb_result.op = "query"
  /\ vdb_result.top_k = 1
  /\ Len(vectors) = 2
  /\ ~SameSim(1, 2)
  /\ Len(vdb_result.indices) = 1

\* C19: records of equal similarity are returned in insertion order, and when
\* top_k cuts through a group of ties the earlier ones are returned.
C19_TiesInInsertionOrder ==
  Queried
  => /\ \A i, j \in 1..Len(vdb_result.indices) :
          (i < j /\ SameSim(vdb_result.indices[i], vdb_result.indices[j]))
          => vdb_result.indices[i] < vdb_result.indices[j]
     /\ \A i \in Returned, r \in (1..Len(vectors)) \ Returned :
          SameSim(i, r) => i < r

\* C20: query on an empty store returns an empty sequence; clear empties the
\* store, and nothing but add puts a record into it.
C20_EmptyStoreQuery ==
  [][/\ (vdb_result'.op = "query" /\ vectors = <<>>) => vdb_result'.value = <<>>
     /\ vdb_result'.op = "clear" => Store' = <<<<>>, <<>>, <<>>>>
     /\ vdb_result'.op # "add" => Len(vectors') <= Len(vectors)]_vars

\* after records were added and removed, a query with the default top_k on
\* the empty store has returned nothing
C20_Witness ==
  /\ vdb_result.op = "query"
  /\ vdb_result.top_k = top_k_default
  /\ vectors = <<>>
  /\ next_id > 1
  /\ vdb_result.value = <<>>

\* the records of the store, each a vector with its metadata and its id
Records == [i \in 1..Len(ids) |-> <<vectors[i], metadatas[i], ids[i]>>]

CallerOperation == n_caller_ops' > n_caller_ops

\* C22: get_history() returns a defensive copy: appending to the returned
\* list, removing from it, or changing the role or content of a returned
\* message changes no provider's message list, so neither what a later
\* get_chat_history() returns nor what the next request is built from.
C22_DefensiveCopy ==
  [][CallerOperation => Contexts' = Contexts]_vars

(***************************************************************************)
(* Properties of Tool.                                                     *)
(***************************************************************************)
\* C23: invoking a Tool forwards the given arguments to the wrapped callable
\* exactly once and returns the callable's result unchanged; if the callable
\* raises, that same error surfaces to the invoker.
C23_InvokeForwards ==
  /\ inv_pc # "idle"
     => /\ Len(inv_calls) = 1
        /\ inv_calls[1].function = inv_tool.function
        /\ inv_calls[1].args = inv_args.args
        /\ inv_calls[1].kwargs = inv_args.kwargs
  /\ inv_pc = "returned" => (inv_value = inv_result /\ inv_result \in CallableResults
                             /\ inv_exc = "")
  /\ inv_pc = "raised" => (inv_exc \in CallableErrors /\ inv_value = NoReturn)

\* a second invocation, with a positional and a keyword argument, has returned
\* what the callable returned
C23_Witness ==
  /\ inv_pc = "returned"
  /\ n_invocations = 2
  /\ inv_args = [args |-> <<"b">>, kwargs |-> {<<"selector", "p">>}]
  /\ inv_value = [error |-> "not found"]

(***************************************************************************)
(* Properties of the providers' constructors.                              *)
(***************************************************************************)
\* no credential was passed (none, or an empty one) and the environment has none
WithoutCredential(c) == ~Truthy(c.key) /\ ~Truthy(c.env)

\* C24: constructing a provider without a credential fails at construction, so
\* every instance that exists holds a credential.
C24_NoProviderWithoutCredential ==
  \A i \in 1..Len(constructions) :
    /\ WithoutCredential(constructions[i]) => constructions[i].exc # ""
    /\ constructions[i].exc = "" => Truthy(constructions[i].api_key)

\* the role and the content of the messages of a list, in order
RolesAndContents(messages) ==
  [i \in 1..Len(messages) |-> RequestMessage(messages[i].role, messages[i].content)]

\* C30: the request chat sends to the backend is the system prompt (first,
\* only if one is set) followed by the messages of the context in insertion
\* order; the user message of this chat is in it once, as the last message.
C30_RequestIsContext ==
  [][\A c \in DOMAIN frames :
       OpenRouterPost(c)
       => LET sent == frames'[c].payload
              body == IF system_prompt # NoSystemPrompt THEN Tail(sent) ELSE sent
          IN /\ Len(sent) >= 1
             /\ (system_prompt # NoSystemPrompt)
                  <=> sent[1] = RequestMessage("system", system_prompt)
             /\ RolesAndContents(body) = RolesAndContents(shared_history)
             /\ RolesAndContents(body)[Len(body)]
                  = RequestMessage("user", CurrentPrompt(frames[c]))]_vars

\* the message sequences of the contexts the caller's providers hold
CallerContexts == {History(p) : p \in HistoryProviders}

\* m is a user message some chat call appended, or the reply to one
AppendedByChat(m) ==
  \E c \in DOMAIN frames :
    /\ frames[c].op = "chat"
    /\ \/ m.role = "user" /\ m.content = CurrentPrompt(frames[c])
       \/ m.role = "assistant" /\ m.content = Completion(CurrentPrompt(frames[c]))

\* C31: the system prompt is never recorded as a message: an assignment to
\* the system prompt leaves every message sequence as it was, and as long as
\* the caller has changed no list it was handed, every message of a context
\* is a user or assistant message that a chat call appended.
C31_SystemPromptNotRecorded ==
  [][/\ system_prompt' # system_prompt => Contexts' = Contexts
     /\ n_caller_ops' = 0
        => \A h \in CallerContexts' : \A i \in 1..Len(h) :
             /\ h[i].role \in {"user", "assistant"}
             /\ h[i].content \notin SystemPrompts
             /\ AppendedByChat(h[i])']_vars

\* a chat whose request began with the system prompt has returned, and the
\* context holds its two messages
C31_Witness ==
  /\ n_caller_ops = 0
  /\ system_prompt # NoSystemPrompt
  /\ \E c \in DOMAIN frames :
       /\ frames[c].pc = "returned"
       /\ frames[c].op = "chat"
       /\ frames[c].payload # <<>>
       /\ frames[c].payload[1] = RequestMessage("system", system_prompt)
  /\ Len(shared_history) = 2

\* the sequence a is a prefix of the sequence b
IsPrefix(a, b) == Len(a) <= Len(b) /\ SubSeq(b, 1, Len(a)) = a

\* C32: the message sequence of the ChatHistory is append-only between
\* clears: without a clear_history the sequence observed before is a prefix of
\* the sequence observed after (no message removed, reordered or altered);
\* clear_history empties the sequence and leaves the list an earlier
\* get_history returned as it was.
C32_AppendOnlyBetweenClears ==
  [][IF CallerClears(OpenRouter)
     THEN /\ shared_history' = <<>>
          /\ returned.from = OpenRouter => returned' = returned
     ELSE IsPrefix(shared_history, shared_history')]_vars

\* C33: in every reachable state all vectors of the store have the same
\* dimensionality; no add leaves vectors of different lengths in it.
C33_OneDimensionality ==
  \A i, j \in 1..Len(vectors) : Len(vectors[i]) = Len(vectors[j])

\* the ids add has given out so far
GivenIds == 1..(next_id - 1)

\* the records of the store, as a set
RecordSet == {Records[i] : i \in 1..Len(ids)}

\* C34: after any sequence of add, delete and clear the three lists have the
\* same length, position i of each holds the parts of one record (the vector
\* and the metadata it was added with, under the id it was given), the stored
\* ids are pairwise distinct and no id is given twice.
C34_ListsAligned ==
  [][/\ Len(vectors') = Len(ids')
     /\ Len(metadatas') = Len(ids')
     /\ \A i, j \in 1..Len(ids') : i # j => ids'[i] # ids'[j]
     /\ \A r \in RecordSet' : r \in RecordSet \/ r[3] \notin GivenIds
     /\ (vdb_result'.op = "add" /\ vdb_result'.exc = "")
        => \A embeddings \in {e \in EmbeddingLists : Len(e) = vdb_result'.n_embeddings},
              given \in {vdb_result'.given},
              list \in {l \in MetadataLists : Len(l) = vdb_result'.n_metadatas} :
          Add(embeddings, given, list)
          => /\ Len(Records') = Len(Records) + Len(embeddings)
             /\ SubSeq(Records', 1, Len(Records)) = Records
             /\ \A i \in 1..Len(embeddings) :
                  /\ Records'[Len(Records) + i][1] = embeddings[i]
                  /\ Records'[Len(Records) + i][2] = (IF given THEN list[i] ELSE EmptyMeta)]_vars

\* a record added after the first one was deleted: it has the second id
C34_Witness ==
  /\ vdb_result.op = "add"
  /\ vdb_result.exc = ""
  /\ ids = <<2>>
  /\ Len(vectors) = 1
  /\ Len(metadatas) = 1

\* C35: across successive add calls on one ChromaDBAdapter every embedding
\* receives an id that no stored record has, so an add of k records that the
\* adapter accepts makes the record count k larger.
C35_ChromaAddFreshIds ==
  [][(chroma_result'.op = "add" /\ chroma_result'.exc # "ValueError")
     => /\ \A i \in 1..Len(chroma_result'.ids) : chroma_result'.ids[i] \notin CollectionIds
        /\ chroma_result'.exc = ""
        /\ Len(collection') = Len(collection) + chroma_result'.n_embeddings]_vars

\* C36: constructing a Tool with any callable succeeds and binds the name
\* (the given one, or else the callable's own), the description (the given
\* one, or else the callable's documentation, or else a generated default)
\* and the parameter schema; the textual representation renders the three.
C36_ToolConstruction ==
  \A i \in 1..Len(tools_built) :
    LET c == tools_built[i] IN
    /\ c.exc = ""
    /\ c.tool # NoTool
    /\ c.tool.name = (IF Truthy(c.name) THEN c.name ELSE c.function.name)
    /\ c.tool.description
         = (IF Truthy(c.description) THEN c.description
            ELSE IF Truthy(c.function.doc) THEN c.function.doc
            ELSE Str(<<"Tool">> \o c.tool.name.text))
    /\ c.tool.parameters = c.parameters
    /\ ToolStr(c.tool)
         = c.tool.name.text \o <<":">> \o c.tool.description.text \o <<c.parameters>>

\* C37: for every provider get_chat_history and clear_chat_history work on
\* the context its chat appends to: get_chat_history never fails, returns
\* nothing after a clear, changes only by a chat or a clear on that provider,
\* and when a chat returns holds that chat's reply as its last message.
C37_HistoryAccessors ==
  [][\A p \in CallerProviders :
       /\ get_chat_history(p)'.exc = ""
       /\ ClearChatHistory(p) => get_chat_history(p)'.value = <<>>
       /\ (~ClearChatHistory(p) /\ ~ChatStepOn(p))
          => get_chat_history(p)'.value = get_chat_history(p).value
       /\ \A c \in DOMAIN frames :
            (Returns(c) /\ frames[c].op = "chat" /\ frames[c].entry = p)
            => LET turns == Turns(get_chat_history(p)'.value) IN
               /\ Len(turns) >= 1
               /\ turns[Len(turns)] = [role |-> "assistant", content |-> frames'[c].value.text]]_vars

\* the call c ends raised in this transition
Raises(c) == frames[c].pc # "raised" /\ frames'[c].pc = "raised"

\* C38: a chat call that fails, by a Router resolution error or by a backend
\* error, leaves every context's message sequence as it was before the call
\* (for a call no other call or clear overlapped).
C38_FailedChatLeavesContext ==
  [][\A c \in DOMAIN frames :
       (Raises(c) /\ frames[c].op = "chat" /\ frames[c].alone)
       => Contexts' = frames[c].ctx_at_start]_vars

====
